---- MODULE Spec2Model ----
(***************************************************************************)
(* Position lifecycle and risk-control engine of quantitative-bot:         *)
(*   TradeRecorder (the Ledger: trades.csv and the risk_management files), *)
(*   AutoTrader    (the Risk Monitor: active_trades, entry, tick, close),  *)
(*   CryptoQuantTrader.start (the scheduling loop).                        *)
(*                                                                         *)
(* Numbers.  Prices are integers.  A quantity is an integer number of      *)
(* 10^-6 units (QtyScale), the finest precision _calculate_trade_size      *)
(* floors to, so profit_loss is in 10^-6 currency units.  A threshold      *)
(* (stop_loss, take_profit) is an integer number of 1/100 price units      *)
(* (PriceScale), which represents price * (1 +- pct/100) exactly.          *)
(* profit_loss_pct is a reduced fraction <<num, den>>.  The state machine  *)
(* computes in exact arithmetic; the rounding of Python floats is modelled *)
(* for _calculate_trade_size alone (CalculateTradeSizeFloat).  An optional *)
(* value (Python None) is the empty sequence, a present value x is <<x>>.  *)
(*                                                                         *)
(* summary.csv, rewritten by update_summary from the closed trades, is     *)
(* derived data that nothing modelled here reads; it is left out.          *)
(***************************************************************************)
EXTENDS Integers, Sequences, FiniteSets, TLC

\* ------------------------------------------------------------------ bounds
\* Rows the trade file may hold (entries stop being requested beyond it).
MaxTrades == 2

\* ------------------------------------------------------- program constants
MAX_TRADE_SIZE == 10
STOP_LOSS == 3
TAKE_PROFIT == 2
USE_DYNAMIC_SL == TRUE
min_confidence == 70
QtyScale == 1000000
PriceScale == 100

\* ------------------------------------------------------------ input ranges
Symbols == {"BTC/USDT"}
Signals == {"buy", "sell", "hold"}
Sides == {"buy", "sell"}
EntryPrices == {100}
Prices == {97, 101, 103}
FreeBalances == {0, 2}
Confidences == {60, 80}
OrderStatuses == {"SUCCESS", "ERROR"}
IoResults == {"ok", "fail"}

None == << >>
Some(x) == << x >>
Opt(S) == {None} \cup {Some(x) : x \in S}

\* ------------------------------------------------------------- arithmetic
Abs(x) == IF x < 0 THEN -x ELSE x
Min(a, b) == IF a <= b THEN a ELSE b
\* Max keeping the second argument whatever the first.
MaxAsLatest(a, b) == b

Max(a, b) == IF a >= b THEN a ELSE b

RECURSIVE Gcd(_, _)
Gcd(a, b) == IF b = 0 THEN a ELSE Gcd(b, a % b)

\* The fraction n/d (d > 0) in lowest terms.
Rat(n, d) ==
  LET g == Gcd(Abs(n), d) IN
  IF g = 0 THEN << 0, 1 >> ELSE << n \div g, d \div g >>

\* Upper without the conversion (the side compared as it is stored).
UpperAsStored(s) == s

\* str.upper() on the side strings the program stores.
Upper(s) ==
  CASE s = "buy" -> "BUY"
    [] s = "sell" -> "SELL"
    [] OTHER -> s

\* str.lower() on the signal strings the program is given.
Lower(s) ==
  CASE s = "BUY" -> "buy"
    [] s = "SELL" -> "sell"
    [] s = "HOLD" -> "hold"
    [] OTHER -> s

RECURSIVE Pow10(_)
Pow10(n) == IF n = 0 THEN 1 ELSE 10 * Pow10(n - 1)

VARIABLES
  trades,     \* trades.csv: the sequence of rows, in file order
  riskStore,  \* risk_management/<trade_id>.json: trade_id -> thresholds
  active,     \* AutoTrader.active_trades of the scheduling process
  running,    \* the scheduling loop of CryptoQuantTrader.start is alive
  last,       \* what the last operation was given and returned
  use_dynamic_sl,  \* AutoTrader.use_dynamic_sl, from the configuration
  procs       \* the handlers in flight, where they are followed step by step

vars == << trades, riskStore, active, running, last, use_dynamic_sl, procs >>

\* ------------------------------------------------------------ the Ledger
\* datetime.now() as a logical time stamp: one more than the number of
\* writes the trade file has seen (a row appended, a row closed).
Now(rows) ==
  1 + Len(rows) + Cardinality({i \in 1..Len(rows) : rows[i].status = "CLOSED"})

\* uuid.uuid4(): an identifier no row carries yet.
NewTradeId(rows) == Len(rows) + 1

\* RowsOf without the comparison of trade_id: every row matches.
RowsOfAnyId(rows, trade_id) == 1..Len(rows)

\* trades_df[trades_df['trade_id'] == trade_id]: the matching row indices.
RowsOf(rows, trade_id) == {i \in 1..Len(rows) : rows[i].trade_id = trade_id}

FirstRow(rows, trade_id) ==
  CHOOSE i \in RowsOf(rows, trade_id) : \A j \in RowsOf(rows, trade_id) : i <= j

TradeIds(rows) == {rows[i].trade_id : i \in 1..Len(rows)}
OpenIds(rows) == {rows[i].trade_id : i \in {j \in 1..Len(rows) : rows[j].status = "OPEN"}}
ClosedIds(rows) == {rows[i].trade_id : i \in {j \in 1..Len(rows) : rows[j].status = "CLOSED"}}
RowById(rows, trade_id) == rows[FirstRow(rows, trade_id)]

\* _record_risk_management: nothing to write when both thresholds are
\* falsy; a failed write is logged and swallowed.
RecordRiskManagement(store, trade_id, stop_loss, take_profit, io) ==
  IF (stop_loss = None \/ stop_loss = Some(0)) /\ (take_profit = None \/ take_profit = Some(0))
  THEN store
  ELSE IF io = "fail" THEN store
  ELSE [t \in DOMAIN store \cup {trade_id} |->
          IF t = trade_id
          THEN [stop_loss |-> stop_loss, take_profit |-> take_profit]
          ELSE store[t]]

\* record_trade_entry: append one OPEN row, then write the thresholds.
\* ioRow = "fail": the append raised, None is returned and nothing written.
\* Result: [id, rows, store].
RecordTradeEntry(rows, store, symbol, side, entry_price, quantity, stop_loss, take_profit, ioRow, ioRisk) ==
  IF ioRow = "fail"
  THEN [id |-> None, rows |-> rows, store |-> store]
  ELSE
    LET trade_id == NewTradeId(rows)
        row == [trade_id |-> trade_id, symbol |-> symbol, side |-> side,
                entry_time |-> Now(rows), entry_price |-> entry_price,
                quantity |-> quantity, exit_time |-> None, exit_price |-> None,
                profit_loss |-> 0, profit_loss_pct |-> << 0, 1 >>,
                status |-> "OPEN", notes |-> "entry"]
    IN [id |-> Some(trade_id),
        rows |-> Append(rows, row),
        store |-> RecordRiskManagement(store, trade_id, stop_loss, take_profit, ioRisk)]

\* ProfitLoss with the formula of a buy whatever the side.
ProfitLossAsBuy(row, exit_price) == (exit_price - row.entry_price) * row.quantity

\* The profit of closing `row` at exit_price (record_trade_exit, 156-161).
ProfitLoss(row, exit_price) ==
  IF Upper(row.side) = "BUY"
  THEN (exit_price - row.entry_price) * row.quantity
  ELSE (row.entry_price - exit_price) * row.quantity

\* ProfitLossPct with the exit price as the base of the percentage.
ProfitLossPctOfExit(row, exit_price) ==
  IF Upper(row.side) = "BUY"
  THEN Rat((exit_price - row.entry_price) * 100, exit_price)
  ELSE Rat((row.entry_price - exit_price) * 100, exit_price)

ProfitLossPct(row, exit_price) ==
  IF Upper(row.side) = "BUY"
  THEN Rat((exit_price - row.entry_price) * 100, row.entry_price)
  ELSE Rat((row.entry_price - exit_price) * 100, row.entry_price)

\* ExitAllowed without the check of the status.
ExitAllowedAnyStatus(rows, trade_id) == RowsOf(rows, trade_id) # {}

\* The check that lets an exit be recorded (record_trade_exit, 138-145).
ExitAllowed(rows, trade_id) ==
  /\ RowsOf(rows, trade_id) # {}
  /\ RowById(rows, trade_id).status = "OPEN"

\* record_trade_exit.  io = "fail": reading the file raised; the except
\* clause returns False and the file is as it was.  Result: [ok, rows].
RecordTradeExit(rows, trade_id, exit_price, notes, io) ==
  IF io = "fail" THEN [ok |-> FALSE, rows |-> rows]
  ELSE IF ~ExitAllowed(rows, trade_id) THEN [ok |-> FALSE, rows |-> rows]
  ELSE
    LET index == FirstRow(rows, trade_id)
        row == rows[index]
        closed == [row EXCEPT !.exit_time = Some(Now(rows)),
                              !.exit_price = Some(exit_price),
                              !.profit_loss = ProfitLoss(row, exit_price),
                              !.profit_loss_pct = ProfitLossPct(row, exit_price),
                              !.status = "CLOSED",
                              !.notes = IF notes # "" THEN notes ELSE row.notes]
    IN [ok |-> TRUE, rows |-> [rows EXCEPT ![index] = closed]]

\* get_open_trades: the OPEN rows in file order; [] when the read raises.
GetOpenTrades(rows, io) ==
  IF io = "fail" THEN << >>
  ELSE SelectSeq(rows, LAMBDA r : r.status = "OPEN")

\* ------------------------------------------------------------ AutoTrader
\* One active_trades entry (auto_trader.py 64-73 and 187-196).
Position(symbol, side, entry_price, quantity, stop_loss, take_profit) ==
  [symbol |-> symbol, side |-> side, entry_price |-> entry_price,
   quantity |-> quantity, stop_loss |-> stop_loss, take_profit |-> take_profit,
   highest_price |-> entry_price, lowest_price |-> entry_price]

\* _load_risk_data: the stored thresholds; {} when the file is missing or
\* reading it raises, so that .get() gives None for both.
LoadRiskData(store, trade_id, io) ==
  IF io = "ok" /\ trade_id \in DOMAIN store
  THEN store[trade_id]
  ELSE [stop_loss |-> None, take_profit |-> None]

\* _load_open_trades: one position per OPEN row, extrema seeded with the
\* entry price.  ioRisk gives, per trade, whether its risk file can be read.
LoadOpenTrades(rows, store, ioOpen, ioRisk) ==
  LET open == GetOpenTrades(rows, ioOpen)
      ids == {open[i].trade_id : i \in 1..Len(open)}
  IN [t \in ids |->
        LET r == RowById(rows, t)
            risk == LoadRiskData(store, t, ioRisk[t])
        IN Position(r.symbol, r.side, r.entry_price, r.quantity,
                    risk.stop_loss, risk.take_profit)]

\* CalculateTradeSize rounding up to the precision where it floors.
CalculateTradeSizeCeil(side, price, free) ==
  LET precision == IF price < 100 THEN 6 ELSE 4
      den == IF side = "buy" THEN price ELSE 1
      q == IF MAX_TRADE_SIZE * den <= free THEN << MAX_TRADE_SIZE, 1 >> ELSE << free, den >>
  IN ((q[1] * Pow10(precision) + q[2] - 1) \div q[2]) * (QtyScale \div Pow10(precision))

\* _calculate_trade_size: min(max_trade_size, affordable) floored to 6
\* decimals below a price of 100 and to 4 from there on, in 10^-6 units.
\* `free` is the free balance of the quote (buy) or base (sell) currency.
CalculateTradeSize(side, price, free) ==
  LET precision == IF price < 100 THEN 6 ELSE 4
      den == IF side = "buy" THEN price ELSE 1
      q == IF MAX_TRADE_SIZE * den <= free THEN << MAX_TRADE_SIZE, 1 >> ELSE << free, den >>
  IN ((q[1] * Pow10(precision)) \div q[2]) * (QtyScale \div Pow10(precision))

\* CalculateStopLossTakeProfitAt with the signs of a buy for both sides.
CalculateStopLossTakeProfitUnmirrored(side, price, stop_loss_pct, take_profit_pct) ==
  [stop_loss |-> price * (PriceScale - stop_loss_pct),
   take_profit |-> price * (PriceScale + take_profit_pct)]

\* _calculate_stop_loss_take_profit, in 1/100 price units, the percentages
\* being whole numbers of percent.
CalculateStopLossTakeProfitAt(side, price, stop_loss_pct, take_profit_pct) ==
  IF side = "buy"
  THEN [stop_loss |-> price * (PriceScale - stop_loss_pct),
        take_profit |-> price * (PriceScale + take_profit_pct)]
  ELSE [stop_loss |-> price * (PriceScale + stop_loss_pct),
        take_profit |-> price * (PriceScale - take_profit_pct)]

\* With the percentages of the configuration (auto_trader.py 33-34).
CalculateStopLossTakeProfit(side, price) ==
  CalculateStopLossTakeProfitAt(side, price, STOP_LOSS, TAKE_PROFIT)

\* OrderSucceeded taking every answer of the gateway for a success.
OrderSucceededAlways(status) == TRUE

\* OrderSucceeded taking every answer but a REJECTED one for a success.
OrderSucceededUnlessRejected(status) == status # "REJECTED"

\* order_result['status'] in ['TEST_SUCCESS', 'SUCCESS'].
OrderSucceeded(status) == status \in {"TEST_SUCCESS", "SUCCESS"}

\* The outcome of one position in a tick or in close_all_positions.
\* seen: a price was obtained, and price is that price; reason: the exit
\* reason found ("" for none, "raise" when the comparison raised); order:
\* the status the gateway answered the closing order with, "none" when no
\* order was submitted; recorded: record_trade_exit was called and returned
\* True; retry: the gateway had refused the closing order of the previous
\* tick for this position.
\* request: the closing order handed to place_order, None when none was.
Outcome(seen, price, reason, order, recorded, retry) ==
  [seen |-> seen, price |-> price, reason |-> reason, order |-> order,
   recorded |-> recorded, retry |-> retry, request |-> None]

\* ClosingOrder on the side of the position itself.
ClosingOrderSameSide(trade) ==
  [symbol |-> trade.symbol, order_type |-> "market", side |-> trade.side,
   amount |-> trade.quantity]

\* The closing order of a position (auto_trader.py 335-341, 432 and 445-450).
ClosingOrder(trade) ==
  [symbol |-> trade.symbol, order_type |-> "market",
   side |-> IF trade.side = "buy" THEN "sell" ELSE "buy",
   amount |-> trade.quantity]

\* The outcome o of a position whose closing order was handed to place_order.
Placed(o, trade) == [o EXCEPT !.request = Some(ClosingOrder(trade))]

NoOutcomes == [t \in {} |-> Outcome(FALSE, None, "", "none", FALSE, FALSE)]

\* What the last operation was: its name, what it returned, the trade_id it
\* was given or returned, the positions it started from, their outcomes, the
\* trades it reports closed, and (Ledger calls) the arguments it was given.
LastOp(op, ret, tid, ids, pos, closed) ==
  [op |-> op, ret |-> ret, tid |-> tid, ids |-> ids, pos |-> pos, closed |-> closed,
   arg |-> None]

\* The ids of a set in increasing order: the insertion order of the
\* active_trades dict (ids are handed out in increasing order, and a restart
\* inserts in file order).
RECURSIVE InOrder(_)
InOrder(S) ==
  IF S = {} THEN << >>
  ELSE LET m == CHOOSE x \in S : \A y \in S : x <= y
       IN << m >> \o InOrder(S \ {m})

\* ExitReason with the trailing stop looked at before the fixed thresholds.
ExitReasonTrailingFirst(trade, current_price) ==
  LET p == current_price * PriceScale IN
  IF trade.stop_loss = None \/ trade.take_profit = None THEN "raise"
  ELSE IF trade.side = "buy"
  THEN IF use_dynamic_sl
          /\ current_price * 200 < trade.highest_price * (200 - STOP_LOSS)
       THEN "dynamic_stop_loss"
       ELSE IF p <= trade.stop_loss[1] THEN "stop_loss"
       ELSE IF p >= trade.take_profit[1] THEN "take_profit"
       ELSE ""
  ELSE IF use_dynamic_sl
          /\ current_price * 200 > trade.lowest_price * (200 + STOP_LOSS)
       THEN "dynamic_stop_loss"
       ELSE IF p >= trade.stop_loss[1] THEN "stop_loss"
       ELSE IF p <= trade.take_profit[1] THEN "take_profit"
       ELSE ""

\* The trailing-stop trigger, in 1/200 price units: extreme is the
\* highest_price of a buy, highest_price * (1 - stop_loss_pct / 200), or the
\* lowest_price of a sell, lowest_price * (1 + stop_loss_pct / 200).
TrailingTrigger(side, extreme) ==
  IF side = "buy" THEN extreme * (200 - STOP_LOSS) ELSE extreme * (200 + STOP_LOSS)

\* Comparing a price with a threshold that is None raises TypeError.
\* check_open_positions 309-331.  Result: "raise", "" (no exit) or the reason.
ExitReason(trade, current_price) ==
  LET p == current_price * PriceScale IN
  IF trade.side = "buy"
  THEN IF trade.stop_loss = None THEN "raise"
       ELSE IF p <= trade.stop_loss[1] THEN "stop_loss"
       ELSE IF trade.take_profit = None THEN "raise"
       ELSE IF p >= trade.take_profit[1] THEN "take_profit"
       ELSE IF use_dynamic_sl
               /\ current_price * 200 < TrailingTrigger("buy", trade.highest_price)
            THEN "dynamic_stop_loss"
       ELSE ""
  ELSE IF trade.stop_loss = None THEN "raise"
       ELSE IF p >= trade.stop_loss[1] THEN "stop_loss"
       ELSE IF trade.take_profit = None THEN "raise"
       ELSE IF p <= trade.take_profit[1] THEN "take_profit"
       ELSE IF use_dynamic_sl
               /\ current_price * 200 > TrailingTrigger("sell", trade.lowest_price)
            THEN "dynamic_stop_loss"
       ELSE ""

\* After the closing order of a tick succeeded (check_open_positions
\* 344-363): the exit is recorded, its result is not looked at, and the
\* trade is marked for removal.
RemoveAfterClose(recorded) == TRUE

\* One iteration of the loop of check_open_positions (290-365).
\* st = [rows, act, log, remove, raised]; in = [ticker, order, io].
CheckOne(st, trade_id, in, prev) ==
  IF in.ticker = None
  THEN [st EXCEPT !.log = [t \in DOMAIN st.log \cup {trade_id} |->
          IF t = trade_id THEN Outcome(FALSE, None, "", "none", FALSE, FALSE) ELSE st.log[t]]]
  ELSE
    LET current_price == in.ticker[1]
        old == st.act[trade_id]
        trade == [old EXCEPT !.highest_price = Max(old.highest_price, current_price),
                             !.lowest_price = Min(old.lowest_price, current_price)]
        act1 == [st.act EXCEPT ![trade_id] = trade]
        exit_reason == ExitReason(trade, current_price)
        retry == trade_id \in DOMAIN prev /\ prev[trade_id].order = "ERROR"
        Log(o) == [t \in DOMAIN st.log \cup {trade_id} |->
                     IF t = trade_id THEN o ELSE st.log[t]]
    IN
    IF exit_reason = "raise"
    THEN [st EXCEPT !.act = act1, !.raised = TRUE,
                    !.log = Log(Outcome(TRUE, in.ticker, "raise", "none", FALSE, FALSE))]
    ELSE IF exit_reason = ""
    THEN [st EXCEPT !.act = act1,
                    !.log = Log(Outcome(TRUE, in.ticker, "", "none", FALSE, FALSE))]
    ELSE IF OrderSucceeded(in.order)
    THEN LET res == RecordTradeExit(st.rows, trade_id, current_price, exit_reason, in.io)
         IN [st EXCEPT !.act = act1, !.rows = res.rows,
                       !.remove = IF RemoveAfterClose(res.ok)
                                  THEN st.remove \cup {trade_id} ELSE st.remove,
                       !.log = Log(Placed(Outcome(TRUE, in.ticker, exit_reason, in.order,
                                                  res.ok, retry), trade))]
    ELSE [st EXCEPT !.act = act1,
                    !.log = Log(Placed(Outcome(TRUE, in.ticker, exit_reason, in.order,
                                               FALSE, retry), trade))]

RECURSIVE CheckLoop(_, _, _, _)
CheckLoop(ids, st, inp, prev) ==
  IF ids = << >> \/ st.raised THEN st
  ELSE CheckLoop(Tail(ids), CheckOne(st, Head(ids), inp[Head(ids)], prev), inp, prev)

\* What the gateway and the file system answer for one position.
\* An answer that is never asked for (no order without a price, no Ledger
\* write without a filled order) is fixed, so that no input is counted twice.
PositionInputs ==
  {in \in [ticker : Opt(Prices), order : OrderStatuses, io : IoResults] :
     /\ in.ticker = None => in.order = "ERROR"
     /\ in.order = "ERROR" => in.io = "ok"}

\* ---------------------------------------------------------------- actions
EmptyMap == [t \in {} |-> 0]

\* No handler is followed step by step: no tick, no close-all command and no
\* write of the trade file is under way.
Idle == [tick |-> None, close |-> None, write |-> None]

\* Nothing recorded yet, the scheduling loop running, the configuration that
\* of config.py.
InitWith(dynamic) ==
  /\ trades = << >>
  /\ riskStore = EmptyMap
  /\ active = EmptyMap
  /\ running = TRUE
  /\ last = LastOp("init", "", None, {}, NoOutcomes, {})
  /\ use_dynamic_sl = dynamic
  /\ procs = Idle

Init == InitWith(USE_DYNAMIC_SL)

\* As Init, with USE_DYNAMIC_SL set either way in the environment.
InitAnyConfig == \E dynamic \in BOOLEAN : InitWith(dynamic)

\* Ignored looking at the signal alone.
IgnoredOnSignalAlone(signal, confidence) == Lower(signal) \notin {"buy", "sell"}

\* The requests execute_trade returns "ignored" for (auto_trader.py 118-127):
\* a signal that is neither buy nor sell in any case, or a confidence that
\* is given and below min_confidence.
Ignored(signal, confidence) ==
  \/ Lower(signal) \notin {"buy", "sell"}
  \/ (confidence # None /\ confidence[1] < min_confidence)

\* execute_trade (auto_trader.py 104-214), called by analyze_trading_pair in
\* the scheduling process.  free = None: the currency is not in the balance.
\* Result: [ret, id, rows, store, act, order, asked], order being the status
\* the gateway answered the entry order with, "none" when none was
\* submitted, and asked whether get_balance was called.
ExecuteTradeResult(rows, store, act, symbol, signal, price, confidence, free, order, ioRow, ioRisk) ==
  LET same(ret) == [ret |-> ret, id |-> None, rows |-> rows, store |-> store, act |-> act,
                    order |-> "none", asked |-> ret # "ignored"]
      side == Lower(signal)
  IN
  IF Ignored(signal, confidence) THEN same("ignored")
  ELSE IF free = None \/ free[1] <= 0 THEN same("failed")
  ELSE
    LET quantity == CalculateTradeSize(side, price, free[1]) IN
    IF quantity <= 0 THEN same("failed")
    ELSE
      LET sltp == CalculateStopLossTakeProfit(side, price) IN
      IF ~OrderSucceeded(order) THEN [same("failed") EXCEPT !.order = order]
      ELSE
        LET rec == RecordTradeEntry(rows, store, symbol, side, price, quantity,
                                    Some(sltp.stop_loss), Some(sltp.take_profit),
                                    ioRow, ioRisk)
        IN [ret |-> "success", id |-> rec.id, rows |-> rec.rows, store |-> rec.store,
            order |-> order, asked |-> TRUE,
            act |-> IF rec.id # None
                    THEN [t \in DOMAIN act \cup {rec.id[1]} |->
                            IF t = rec.id[1]
                            THEN Position(symbol, side, price, quantity,
                                          Some(sltp.stop_loss), Some(sltp.take_profit))
                            ELSE act[t]]
                    ELSE act]

\* What an entry request is given: the signal, the balance, the gateway's
\* and the file system's answers.  As for PositionInputs, an answer that is
\* never asked for is fixed.
EntryInputsFor(signals, confidences, prices) ==
  {in \in [symbol : Symbols, signal : signals, price : prices,
            confidence : Opt(confidences), free : Opt(FreeBalances),
            order : OrderStatuses, ioRow : IoResults, ioRisk : IoResults] :
     LET ignored == Ignored(in.signal, in.confidence)
         unfunded == in.free = None \/ in.free[1] <= 0
     IN /\ ignored => in.free = None
        /\ (ignored \/ unfunded) => in.order = "ERROR"
        /\ in.order = "ERROR" => in.ioRow = "fail"
        /\ in.ioRow = "fail" => in.ioRisk = "ok"}

EntryInputsAt(prices) == EntryInputsFor(Signals, Confidences, prices)

EntryInputs == EntryInputsAt(EntryPrices)

\* last.arg: the entry order's answer, the request (signal, confidence,
\* price), whether the balance was asked for and the free balance found.
ExecuteTradeWith(inputs) ==
  /\ running /\ procs.tick = None
  /\ Len(trades) < MaxTrades
  /\ \E in \in inputs :
       \E r \in {ExecuteTradeResult(trades, riskStore, active, in.symbol, in.signal,
                                    in.price, in.confidence, in.free, in.order,
                                    in.ioRow, in.ioRisk)} :
          /\ trades' = r.rows
          /\ riskStore' = r.store
          /\ active' = r.act
          /\ last' = [LastOp("execute_trade", r.ret, r.id, {}, NoOutcomes, {})
                      EXCEPT !.arg = Some([order |-> r.order, signal |-> in.signal,
                                           confidence |-> in.confidence,
                                           price |-> in.price, asked |-> r.asked,
                                           free |-> in.free])]
  /\ UNCHANGED << running, use_dynamic_sl, procs >>

ExecuteTrade == ExecuteTradeWith(EntryInputs)

\* Entry requests at prices low and high against the balance, so that the
\* affordable quantity floors to zero for some: the only handler running.
SizedEntryPrices == {100, 50000}

EntryRequest == ExecuteTradeWith(EntryInputsAt(SizedEntryPrices))

NextEntry == EntryRequest

SpecEntry == Init /\ [][NextEntry]_vars

\* Entry requests with signals in any case and confidences around the
\* least one that is acted on: the only handler running.
AnySignals == {"buy", "sell", "BUY", "SELL", "hold", "neutral", ""}
AnyConfidences == {0, 69, 70, 71}

SignalRequest == ExecuteTradeWith(EntryInputsFor(AnySignals, AnyConfidences, EntryPrices))

NextSignal == SignalRequest

SpecSignal == Init /\ [][NextSignal]_vars

\* check_open_positions (auto_trader.py 277-371), run by the loop of
\* CryptoQuantTrader.start (main.py 103, 111, 117-119).  An exception that
\* leaves check_open_positions leaves schedule.run_pending and is caught by
\* the except clause around the loop (main.py 123): the loop is over.
CheckOpenPositions ==
  /\ running
  /\ \E inp \in [DOMAIN active -> PositionInputs] :
       LET st0 == [rows |-> trades, act |-> active, log |-> NoOutcomes,
                   remove |-> {}, raised |-> FALSE]
           prev == IF last.op = "check_open_positions" THEN last.pos ELSE NoOutcomes
       IN \E st \in {CheckLoop(InOrder(DOMAIN active), st0, inp, prev)} :
          /\ trades' = st.rows
          /\ active' = IF st.raised THEN st.act
                       ELSE [t \in DOMAIN st.act \ st.remove |-> st.act[t]]
          /\ running' = ~st.raised
          /\ last' = LastOp("check_open_positions",
                            IF st.raised THEN "raised" ELSE "returned",
                            None, DOMAIN active, st.log,
                            IF st.raised THEN {} ELSE st.remove)
  /\ UNCHANGED << riskStore, use_dynamic_sl, procs >>

\* One iteration of the loop of close_all_positions (427-471).
\* st = [rows, act, log, closed].
CloseOne(st, trade_id, in) ==
  LET Log(o) == [t \in DOMAIN st.log \cup {trade_id} |->
                   IF t = trade_id THEN o ELSE st.log[t]]
  IN
  IF in.ticker = None
  THEN [st EXCEPT !.log = Log(Outcome(FALSE, None, "", "none", FALSE, FALSE))]
  ELSE IF OrderSucceeded(in.order)
  THEN LET res == RecordTradeExit(st.rows, trade_id, in.ticker[1], "manual", in.io)
       IN [st EXCEPT !.rows = res.rows,
                     !.act = [t \in DOMAIN st.act \ {trade_id} |-> st.act[t]],
                     !.closed = st.closed \cup {trade_id},
                     !.log = Log(Placed(Outcome(TRUE, in.ticker, "manual", in.order,
                                                res.ok, FALSE), st.act[trade_id]))]
  ELSE [st EXCEPT !.log = Log(Placed(Outcome(TRUE, in.ticker, "manual", in.order,
                                             FALSE, FALSE), st.act[trade_id]))]

RECURSIVE CloseLoop(_, _, _)
CloseLoop(ids, st, inp) ==
  IF ids = << >> THEN st
  ELSE CloseLoop(Tail(ids), CloseOne(st, Head(ids), inp[Head(ids)]), inp)

\* The --close-all command and the menu entry (main.py 364-384, menu.py
\* 615-657): another process builds its own TradeRecorder and AutoTrader,
\* whose active_trades are loaded from the trade file, and closes them all.
\* The thresholds it loads are never read.  The scheduling process and its
\* active_trades are not touched.  last.closed is the list returned,
\* last.arg.left the active_trades of the command when it returns.
CloseAllCommand ==
  /\ \E ioOpen \in IoResults :
       \E mine \in {LoadOpenTrades(trades, riskStore, ioOpen,
                                    [t \in TradeIds(trades) |-> "ok"])} :
         \E inp \in [DOMAIN mine -> PositionInputs] :
           LET st0 == [rows |-> trades, act |-> mine, log |-> NoOutcomes, closed |-> {}]
           IN \E st \in {CloseLoop(InOrder(DOMAIN mine), st0, inp)} :
                /\ trades' = st.rows
                /\ last' = [LastOp("close_all_positions", "returned", None,
                                   DOMAIN mine, st.log, st.closed)
                            EXCEPT !.arg = Some([left |-> DOMAIN st.act])]
  /\ UNCHANGED << riskStore, active, running, use_dynamic_sl, procs >>

\* The stop prices update_stop_loss is given, in 1/100 price units.
NewStopLosses == {10100}

\* update_stop_loss (auto_trader.py 373-410), on the AutoTrader of the
\* scheduling process.  The threshold in memory is replaced first (390);
\* then the risk file is read ({} when missing or unreadable), the stop
\* price put into what was read and the file written back.  ioWrite =
\* "fail": the write raised and False is returned.
UpdateStopLoss ==
  /\ running /\ procs.tick = None
  /\ \E trade_id \in 1..MaxTrades, new_stop_loss \in NewStopLosses,
        ioRead \in IoResults, ioWrite \in IoResults :
       LET Called(ret) ==
             [LastOp("update_stop_loss", ret, Some(trade_id), {}, NoOutcomes, {})
                EXCEPT !.arg = Some([new_stop_loss |-> new_stop_loss])]
       IN
       IF trade_id \notin DOMAIN active
       THEN /\ ioRead = "ok" /\ ioWrite = "ok"
            /\ UNCHANGED << active, riskStore >>
            /\ last' = Called("False")
       ELSE
         LET risk_data == LoadRiskData(riskStore, trade_id, ioRead) IN
         /\ ioWrite = "fail" => ioRead = "ok"
         /\ active' = [active EXCEPT ![trade_id].stop_loss = Some(new_stop_loss)]
         /\ riskStore' =
              IF ioWrite = "fail" THEN riskStore
              ELSE [t \in DOMAIN riskStore \cup {trade_id} |->
                      IF t = trade_id
                      THEN [risk_data EXCEPT !.stop_loss = Some(new_stop_loss)]
                      ELSE riskStore[t]]
         /\ last' = Called(IF ioWrite = "fail" THEN "False" ELSE "True")
  /\ UNCHANGED << trades, running, use_dynamic_sl, procs >>

\* The scheduling process is killed inside a tick, between place_order
\* returning a success for a position (auto_trader.py 335-344) and the call
\* of record_trade_exit (346): the positions before it in the loop were
\* handled, the gateway holds the filled closing order, nothing of it is in
\* the trade file.
CrashAfterOrder ==
  /\ running /\ procs.tick = None
  /\ \E k \in 1..Cardinality(DOMAIN active), inp \in [DOMAIN active -> PositionInputs] :
       LET ids == InOrder(DOMAIN active)
           t == ids[k]
           st0 == [rows |-> trades, act |-> active, log |-> NoOutcomes,
                   remove |-> {}, raised |-> FALSE]
           prev == IF last.op = "check_open_positions" THEN last.pos ELSE NoOutcomes
       IN /\ inp[t].ticker # None /\ inp[t].order = "SUCCESS" /\ inp[t].io = "ok"
          /\ \A j \in (k + 1)..Len(ids) :
               inp[ids[j]] = [ticker |-> None, order |-> "ERROR", io |-> "ok"]
          /\ \E st \in {CheckLoop(SubSeq(ids, 1, k - 1), st0, inp, prev)} :
               LET current_price == inp[t].ticker[1]
                   old == st.act[t]
                   trade == [old EXCEPT
                               !.highest_price = Max(old.highest_price, current_price),
                               !.lowest_price = Min(old.lowest_price, current_price)]
                   exit_reason == ExitReason(trade, current_price)
               IN /\ ~st.raised
                  /\ exit_reason \notin {"", "raise"}
                  /\ trades' = st.rows
                  /\ active' = [st.act EXCEPT ![t] = trade]
                  /\ last' = LastOp("crash", "killed", Some(t), DOMAIN active,
                                    [u \in DOMAIN st.log \cup {t} |->
                                       IF u = t
                                       THEN Placed(Outcome(TRUE, inp[t].ticker, exit_reason,
                                                           inp[t].order, FALSE, FALSE),
                                                   trade)
                                       ELSE st.log[u]], {})
  /\ running' = FALSE
  /\ UNCHANGED << riskStore, use_dynamic_sl, procs >>

\* The trades whose closing order the gateway filled while the process was
\* killed before recording the exit.
FilledUnrecorded(l) == IF l.op = "crash" THEN {l.tid[1]} ELSE {}

\* The scheduling process is started again (main.py 48-90): a new
\* AutoTrader loads the OPEN trades and the loop of start() runs.  Nothing
\* is asked of the gateway.  last.ids: the trades whose closing order had
\* been filled when the process before was killed.
Restart ==
  /\ \E ioOpen \in IoResults, ioRisk \in [TradeIds(trades) -> IoResults] :
       /\ ioOpen = "fail" => \A t \in TradeIds(trades) : ioRisk[t] = "ok"
       /\ active' = LoadOpenTrades(trades, riskStore, ioOpen, ioRisk)
  /\ running' = TRUE
  /\ last' = LastOp("restart", "", None, FilledUnrecorded(last), NoOutcomes, {})
  /\ UNCHANGED << trades, riskStore, use_dynamic_sl, procs >>

\* The scheduling process alone.
Next ==
  \/ ExecuteTrade
  \/ CheckOpenPositions
  \/ Restart

Spec == Init /\ [][Next]_vars

\* The scheduling process entering one trade in all, with its timer: as
\* long as the loop of start() runs, schedule.run_pending() runs
\* check_open_positions every 60 s (main.py 111, 117-119), so a tick that
\* can be taken is taken in the end.  Nothing makes a restart happen.
MaxLiveTrades == 1

LiveEntry == Len(trades) < MaxLiveTrades /\ ExecuteTrade

NextLive ==
  \/ LiveEntry
  \/ CheckOpenPositions
  \/ Restart

SpecLive == Init /\ [][NextLive]_vars /\ WF_vars(CheckOpenPositions)

\* The close-all command run between runs of the scheduling process.
NextClose ==
  \/ ExecuteTrade
  \/ Restart
  \/ CloseAllCommand

SpecClose == Init /\ [][NextClose]_vars

\* The scheduling process, entering one trade in all, and the close-all
\* command, each run as a whole: every closing order placed in the program.
NextOrders ==
  \/ LiveEntry
  \/ CheckOpenPositions
  \/ CloseAllCommand
  \/ Restart

SpecOrders == Init /\ [][NextOrders]_vars

\* The scheduling process under either setting of USE_DYNAMIC_SL.
SpecAnyConfig == InitAnyConfig /\ [][Next]_vars

\* The scheduling process, killed at times between a filled closing order
\* and its recording.
NextCrash ==
  \/ ExecuteTrade
  \/ CheckOpenPositions
  \/ CrashAfterOrder
  \/ Restart

SpecCrash == Init /\ [][NextCrash]_vars

\* Entries, restarts and update_stop_loss called on the AutoTrader of the
\* scheduling process, between its ticks.
NextUpdate ==
  \/ ExecuteTrade
  \/ UpdateStopLoss
  \/ Restart

SpecUpdate == Init /\ [][NextUpdate]_vars

\* --------------------------------------- _calculate_trade_size in floats
\* The program computes the quantity in Python floats (IEEE-754 binary64,
\* round to nearest, ties to even).  A natural number is a sequence of
\* digits to the base FloatBase, least significant first, without leading
\* zeros; a float is [m, e], the number m * 2^e, with m of at most
\* MantissaBits bits once rounded.  Only numbers >= 0 in the normal range
\* occur.
FloatBase == 32768
DigitBits == 15
MantissaBits == 53

RECURSIVE Trim(_)
Trim(a) ==
  IF a = << >> THEN a
  ELSE IF a[Len(a)] = 0 THEN Trim(SubSeq(a, 1, Len(a) - 1)) ELSE a

Digits(n) ==
  Trim(<< n % FloatBase, (n \div FloatBase) % FloatBase, n \div (FloatBase * FloatBase) >>)

ToInt(a) ==
  (IF Len(a) >= 1 THEN a[1] ELSE 0) + (IF Len(a) >= 2 THEN a[2] * FloatBase ELSE 0)
    + (IF Len(a) >= 3 THEN a[3] * FloatBase * FloatBase ELSE 0)

DigitAt(a, i) == IF i <= Len(a) THEN a[i] ELSE 0

RECURSIVE AddFrom(_, _, _, _)
AddFrom(a, b, i, carry) ==
  IF i > Len(a) /\ i > Len(b) THEN (IF carry = 0 THEN << >> ELSE << carry >>)
  ELSE LET sum == DigitAt(a, i) + DigitAt(b, i) + carry
       IN << sum % FloatBase >> \o AddFrom(a, b, i + 1, sum \div FloatBase)

Add(a, b) == AddFrom(a, b, 1, 0)

\* a - b for a >= b.
RECURSIVE SubFrom(_, _, _, _)
SubFrom(a, b, i, borrow) ==
  IF i > Len(a) THEN << >>
  ELSE LET d == a[i] - DigitAt(b, i) - borrow
       IN IF d < 0 THEN << d + FloatBase >> \o SubFrom(a, b, i + 1, 1)
          ELSE << d >> \o SubFrom(a, b, i + 1, 0)

Sub(a, b) == Trim(SubFrom(a, b, 1, 0))

RECURSIVE CmpFrom(_, _, _)
CmpFrom(a, b, i) ==
  IF i = 0 THEN 0
  ELSE IF a[i] < b[i] THEN -1
  ELSE IF a[i] > b[i] THEN 1
  ELSE CmpFrom(a, b, i - 1)

\* -1, 0 or 1 as a < b, a = b or a > b.
Cmp(a, b) ==
  IF Len(a) < Len(b) THEN -1
  ELSE IF Len(a) > Len(b) THEN 1
  ELSE CmpFrom(a, b, Len(a))

RECURSIVE MulSmallFrom(_, _, _, _)
MulSmallFrom(a, f, i, carry) ==
  IF i > Len(a) THEN (IF carry = 0 THEN << >> ELSE << carry >>)
  ELSE LET prod == a[i] * f + carry
       IN << prod % FloatBase >> \o MulSmallFrom(a, f, i + 1, prod \div FloatBase)

\* a * f for 0 <= f < FloatBase.
MulSmall(a, f) == Trim(MulSmallFrom(a, f, 1, 0))

RECURSIVE DivSmallFrom(_, _, _, _)
DivSmallFrom(a, f, i, rem) ==
  IF i = 0 THEN << >>
  ELSE LET v == rem * FloatBase + a[i]
       IN DivSmallFrom(a, f, i - 1, v % f) \o << v \div f >>

\* floor(a / f) for 1 <= f <= FloatBase.
DivSmall(a, f) == Trim(DivSmallFrom(a, f, Len(a), 0))

RECURSIVE Pow2(_)
Pow2(k) == IF k = 0 THEN 1 ELSE 2 * Pow2(k - 1)

Zeros(k) == [i \in 1..k |-> 0]

\* a * 2^k and floor(a / 2^k).
Shl(a, k) ==
  IF a = << >> THEN a
  ELSE Zeros(k \div DigitBits) \o MulSmall(a, Pow2(k % DigitBits))

Shr(a, k) ==
  IF k \div DigitBits >= Len(a) THEN << >>
  ELSE DivSmall(SubSeq(a, (k \div DigitBits) + 1, Len(a)), Pow2(k % DigitBits))

RECURSIVE BitLenSmall(_)
BitLenSmall(d) == IF d = 0 THEN 0 ELSE 1 + BitLenSmall(d \div 2)

BitLen(a) ==
  IF a = << >> THEN 0 ELSE DigitBits * (Len(a) - 1) + BitLenSmall(a[Len(a)])

\* Bit i of a, bit 0 the least significant.
Bit(a, i) == (DigitAt(a, (i \div DigitBits) + 1) \div Pow2(i % DigitBits)) % 2

RECURSIVE MulFrom(_, _, _)
MulFrom(a, b, i) ==
  IF i > Len(b) THEN << >>
  ELSE Add(Zeros(i - 1) \o MulSmall(a, b[i]), MulFrom(a, b, i + 1))

Mul(a, b) == Trim(MulFrom(a, b, 1))

\* The largest digit d with d * b <= r, for r < b * FloatBase, found bit by
\* bit from the top.
RECURSIVE QuotDigit(_, _, _, _)
QuotDigit(r, b, bit, d) ==
  IF bit < 0 THEN d
  ELSE IF Cmp(MulSmall(b, d + Pow2(bit)), r) <= 0
  THEN QuotDigit(r, b, bit - 1, d + Pow2(bit))
  ELSE QuotDigit(r, b, bit - 1, d)

\* Long division, one digit of a at a time from the top: [q, r] with
\* a = q * b + r and r < b; q and r are the quotient and remainder of the
\* digits above digit i.
RECURSIVE DivModFrom(_, _, _, _, _)
DivModFrom(a, b, i, q, r) ==
  IF i = 0 THEN [q |-> Trim(q), r |-> r]
  ELSE LET r2 == Trim(<< a[i] >> \o r)
           d == QuotDigit(r2, b, DigitBits - 1, 0)
       IN DivModFrom(a, b, i - 1, << d >> \o q, Sub(r2, MulSmall(b, d)))

DivMod(a, b) == DivModFrom(a, b, Len(a), << >>, << >>)

\* The float nearest to M * 2^e (+ a little more when sticky), ties to even.
FRound(M, e, sticky) ==
  IF BitLen(M) <= MantissaBits THEN [m |-> M, e |-> e]
  ELSE LET s == BitLen(M) - MantissaBits
           kept == Shr(M, s)
           c == Cmp(Sub(M, Shl(kept, s)), Shl(<< 1 >>, s - 1))
           up == c > 0 \/ (c = 0 /\ (sticky \/ Bit(kept, 0) = 1))
       IN [m |-> IF up THEN Add(kept, << 1 >>) ELSE kept, e |-> e + s]

\* The float nearest to n / d (natural numbers, d > 0), scaled by 2^e: a
\* decimal literal read by float(), int / int, float / float.
FRatio(n, d, e) ==
  IF n = << >> THEN [m |-> << >>, e |-> 0]
  ELSE LET k == 3 + MantissaBits + BitLen(d)
           qr == DivMod(Shl(n, k), d)
       IN FRound(qr.q, e - k, qr.r # << >>)

FInt(n) == [m |-> Digits(n), e |-> 0]
FMul(x, y) == FRound(Mul(x.m, y.m), x.e + y.e, FALSE)
FDiv(x, y) == FRatio(x.m, y.m, x.e - y.e)

\* -1, 0 or 1 as x < y, x = y or x > y.
FCmp(x, y) ==
  IF x.m = << >> \/ y.m = << >> THEN Cmp(x.m, y.m)
  ELSE IF x.e >= y.e THEN Cmp(Shl(x.m, x.e - y.e), y.m)
  ELSE Cmp(x.m, Shl(y.m, y.e - x.e))

\* math.floor of a float, a natural number.
FFloor(x) == IF x.e >= 0 THEN Shl(x.m, x.e) ELSE Shr(x.m, 0 - x.e)

\* _calculate_trade_size (auto_trader.py 216-255) on floats: price and free
\* are floats, free the free balance of the currency spent.  Result:
\* [max, the min(max_trade_size, max_quantity) of line 245; precision;
\* units, the floor of line 249; quantity, the float returned].
CalculateTradeSizeFloat(side, price, free) ==
  IF side = "buy" /\ price.m = << >>
  THEN [max |-> FInt(0), precision |-> 6, units |-> 0, quantity |-> FInt(0)]
  ELSE LET max_quantity == IF side = "buy" THEN FDiv(free, price) ELSE free
           quantity == IF FCmp(max_quantity, FInt(MAX_TRADE_SIZE)) < 0
                       THEN max_quantity ELSE FInt(MAX_TRADE_SIZE)
           precision == IF FCmp(price, FInt(100)) < 0 THEN 6 ELSE 4
           floor == FFloor(FMul(quantity, FInt(Pow10(precision))))
       IN [max |-> quantity, precision |-> precision, units |-> ToInt(floor),
           quantity |-> FRatio(floor, Digits(Pow10(precision)), 0)]

\* The prices and balances _calculate_trade_size is given, as decimal
\* numbers << numerator, denominator >> that float() reads.
SizePrices == {<< 0, 1 >>, << 50, 1 >>, << 100, 1 >>, << 550, 1 >>, << 50000, 1 >>}
SizeBalances ==
  {<< 0, 1 >>, << 2, 1 >>, << 5, 1 >>, << 71, 100 >>, << 142, 100 >>, << 29, 10000 >>,
   << 90904, 100 >>, << 2000000, 1 >>}

FDecimal(x) == FRatio(Digits(x[1]), Digits(x[2]), 0)

InitSize ==
  /\ trades = << >>
  /\ riskStore = EmptyMap
  /\ active = EmptyMap
  /\ running = TRUE
  /\ use_dynamic_sl = USE_DYNAMIC_SL
  /\ procs = Idle
  /\ \E side \in Sides, price \in SizePrices, free \in SizeBalances :
       last = [LastOp("_calculate_trade_size", "", None, {}, NoOutcomes, {})
                 EXCEPT !.arg = Some([side |-> side, price |-> price, free |-> free])]

EvalSize ==
  /\ last.op = "_calculate_trade_size" /\ last.ret = ""
  /\ \E r \in {CalculateTradeSizeFloat(last.arg[1].side, FDecimal(last.arg[1].price),
                                        FDecimal(last.arg[1].free))} :
       last' = [last EXCEPT !.ret = "returned", !.pos = << r >>]
  /\ UNCHANGED << trades, riskStore, active, running, use_dynamic_sl, procs >>

NextSize == EvalSize

SpecSize == InitSize /\ [][NextSize]_vars

\* ------------------------------------ _calculate_stop_loss_take_profit
\* The prices and the percentages (STOP_LOSS, TAKE_PROFIT of the
\* environment) the thresholds are calculated from.
ThresholdPrices == {1, 97, 100, 50000}
ThresholdPcts == {1, 2, 3, 50}

InitThresholds ==
  /\ trades = << >>
  /\ riskStore = EmptyMap
  /\ active = EmptyMap
  /\ running = TRUE
  /\ use_dynamic_sl = USE_DYNAMIC_SL
  /\ procs = Idle
  /\ \E side \in Sides, price \in ThresholdPrices, sl \in ThresholdPcts, tp \in ThresholdPcts :
       last = [LastOp("_calculate_stop_loss_take_profit", "", None, {}, NoOutcomes, {})
                 EXCEPT !.arg = Some([side |-> side, price |-> price,
                                      stop_loss_pct |-> sl, take_profit_pct |-> tp])]

\* The thresholds are calculated and put into the position execute_trade
\* builds from them (auto_trader.py 156, 187-196): last.pos.
EvalThresholds ==
  /\ last.op = "_calculate_stop_loss_take_profit" /\ last.ret = ""
  /\ \E a \in {last.arg[1]} :
       \E r \in {CalculateStopLossTakeProfitAt(a.side, a.price, a.stop_loss_pct,
                                                 a.take_profit_pct)} :
         last' = [last EXCEPT !.ret = "returned",
                              !.pos = << Position("BTC/USDT", a.side, a.price, QtyScale,
                                                  Some(r.stop_loss), Some(r.take_profit)) >>]
  /\ UNCHANGED << trades, riskStore, active, running, use_dynamic_sl, procs >>

NextThresholds == EvalThresholds

SpecThresholds == InitThresholds /\ [][NextThresholds]_vars

\* ------------------------------------- the tick and close-all, step by step
\* The scheduling process and the process of the close-all command are two
\* operating-system processes, each with its own AutoTrader and its own
\* active_trades, that share the trade file and the gateway.  Nothing in
\* check_open_positions, close_all_positions or their callers takes a lock.
\* Here each loop is followed one position at a time.

\* The answers given to one step: the trade file can be written.
StepInputs == {in \in PositionInputs : in.io = "ok"}

\* check_open_positions is entered (auto_trader.py 284-290): the loop is
\* about to go through the positions active now.
TickBegin ==
  /\ running /\ procs.tick = None /\ DOMAIN active # {}
  /\ procs' = [procs EXCEPT !.tick = Some([todo |-> InOrder(DOMAIN active),
                                           remove |-> {}])]
  /\ last' = LastOp("tick_begin", "", None, DOMAIN active, NoOutcomes, {})
  /\ UNCHANGED << trades, riskStore, active, running, use_dynamic_sl >>

\* One iteration of the loop of check_open_positions (290-366).
TickStep ==
  /\ procs.tick # None /\ procs.tick[1].todo # << >>
  /\ \E in \in StepInputs :
       LET t == Head(procs.tick[1].todo)
           st0 == [rows |-> trades, act |-> active, log |-> NoOutcomes,
                   remove |-> procs.tick[1].remove, raised |-> FALSE]
       IN \E st \in {CheckOne(st0, t, in, NoOutcomes)} :
            /\ trades' = st.rows
            /\ active' = st.act
            /\ running' = ~st.raised
            /\ procs' = [procs EXCEPT !.tick =
                           IF st.raised THEN None
                           ELSE Some([todo |-> Tail(procs.tick[1].todo),
                                      remove |-> st.remove])]
            /\ last' = LastOp("tick_step", "", Some(t), {}, NoOutcomes, {})
  /\ UNCHANGED << riskStore, use_dynamic_sl >>

\* The loop is over: the closed positions are removed (368-371).
TickEnd ==
  /\ procs.tick # None /\ procs.tick[1].todo = << >>
  /\ active' = [t \in DOMAIN active \ procs.tick[1].remove |-> active[t]]
  /\ procs' = [procs EXCEPT !.tick = None]
  /\ last' = LastOp("check_open_positions", "returned", None, {}, NoOutcomes,
                    procs.tick[1].remove)
  /\ UNCHANGED << trades, riskStore, running, use_dynamic_sl >>

\* The close-all command starts (main.py 364-377, menu.py 635-644): its
\* AutoTrader loads the OPEN trades and close_all_positions enters its loop
\* over them (auto_trader.py 422-427).
CloseBegin ==
  /\ procs.close = None
  /\ \E mine \in {LoadOpenTrades(trades, riskStore, "ok",
                                  [t \in TradeIds(trades) |-> "ok"])} :
       /\ DOMAIN mine # {}
       /\ procs' = [procs EXCEPT !.close = Some([act |-> mine,
                                                todo |-> InOrder(DOMAIN mine),
                                                closed |-> {}])]
       /\ last' = LastOp("close_begin", "", None, DOMAIN mine, NoOutcomes, {})
  /\ UNCHANGED << trades, riskStore, active, running, use_dynamic_sl >>

\* One iteration of the loop of close_all_positions (427-471).
CloseStep ==
  /\ procs.close # None /\ procs.close[1].todo # << >>
  /\ \E in \in StepInputs :
       LET t == Head(procs.close[1].todo)
           st0 == [rows |-> trades, act |-> procs.close[1].act, log |-> NoOutcomes,
                   closed |-> procs.close[1].closed]
       IN \E st \in {CloseOne(st0, t, in)} :
            /\ trades' = st.rows
            /\ procs' = [procs EXCEPT !.close =
                           Some([act |-> st.act,
                                 todo |-> Tail(procs.close[1].todo),
                                 closed |-> st.closed])]
            /\ last' = LastOp("close_step", "", Some(t), {}, NoOutcomes, {})
  /\ UNCHANGED << riskStore, active, running, use_dynamic_sl >>

\* close_all_positions returns (473) and the command ends.
CloseEnd ==
  /\ procs.close # None /\ procs.close[1].todo = << >>
  /\ procs' = [procs EXCEPT !.close = None]
  /\ last' = LastOp("close_all_positions", "returned", None, {}, NoOutcomes,
                    procs.close[1].closed)
  /\ UNCHANGED << trades, riskStore, active, running, use_dynamic_sl >>

NextOverlap ==
  \/ ExecuteTrade
  \/ TickBegin
  \/ TickStep
  \/ TickEnd
  \/ CloseBegin
  \/ CloseStep
  \/ CloseEnd

SpecOverlap == Init /\ [][NextOverlap]_vars

\* ------------------------------------------------- the Ledger on its own
\* TradeRecorder called directly, with any arguments: the trade_id given to
\* record_trade_exit may be unknown or name a closed trade.
LedgerEntryPrices == {99, 100}
LedgerQuantities == {QtyScale, 2 * QtyScale}
LedgerExitPrices == {97, 100, 103}
LedgerNotes == {"", "manual"}

LedgerRecordEntryWith(maxRows, symbols, prices, quantities, ios) ==
  /\ Len(trades) < maxRows
  /\ \E symbol \in symbols, side \in Sides, entry_price \in prices,
        quantity \in quantities, ioRow \in ios :
       \E r \in {RecordTradeEntry(trades, riskStore, symbol, side, entry_price, quantity,
                                  None, None, ioRow, "ok")} :
          /\ trades' = r.rows
          /\ riskStore' = r.store
          /\ last' = LastOp("record_trade_entry", "", r.id, {}, NoOutcomes, {})
  /\ UNCHANGED << active, running, use_dynamic_sl, procs >>

LedgerRecordEntry ==
  LedgerRecordEntryWith(MaxTrades, Symbols, LedgerEntryPrices, LedgerQuantities, IoResults)

LedgerRecordExitWith(ids, prices, allNotes, ios) ==
  /\ \E trade_id \in ids, exit_price \in prices, notes \in allNotes, io \in ios :
       \E r \in {RecordTradeExit(trades, trade_id, exit_price, notes, io)} :
          /\ trades' = r.rows
          /\ last' = [LastOp("record_trade_exit", IF r.ok THEN "True" ELSE "False",
                             Some(trade_id), {}, NoOutcomes, {})
                      EXCEPT !.arg = Some([exit_price |-> exit_price, notes |-> notes,
                                           io |-> io])]
  /\ UNCHANGED << riskStore, active, running, use_dynamic_sl, procs >>

LedgerRecordExit ==
  LedgerRecordExitWith(1..(MaxTrades + 1), LedgerExitPrices, LedgerNotes, IoResults)

NextLedger ==
  \/ LedgerRecordEntry
  \/ LedgerRecordExit

SpecLedger == Init /\ [][NextLedger]_vars

\* ------------------------------------------------ get_performance_metrics
\* A metric is a number (a fraction << num, den >>), float('inf') or the
\* nan pandas gives for the max() of an empty column.
Num(n, d) == [kind |-> "num", val |-> Rat(n, d)]
Inf == [kind |-> "inf", val |-> << 0, 1 >>]
NaN == [kind |-> "nan", val |-> << 0, 1 >>]

\* sort_values('exit_time') on rows whose exit times differ.
RECURSIVE SortByExitTime(_)
SortByExitTime(rows) ==
  IF rows = << >> THEN << >>
  ELSE LET i == CHOOSE k \in 1..Len(rows) :
                  \A j \in 1..Len(rows) : rows[k].exit_time[1] <= rows[j].exit_time[1]
       IN << rows[i] >> \o SortByExitTime(SubSeq(rows, 1, i - 1) \o SubSeq(rows, i + 1, Len(rows)))

\* Series.sum() of profit_loss.
RECURSIVE SumProfitLoss(_)
SumProfitLoss(rows) ==
  IF rows = << >> THEN 0 ELSE Head(rows).profit_loss + SumProfitLoss(Tail(rows))

\* cumsum() of profit_loss up to row i, and cummax() of that up to row i.
CumulativeProfit(rows, i) == SumProfitLoss(SubSeq(rows, 1, i))

RECURSIVE CumulativeMax(_, _)
CumulativeMax(rows, i) ==
  IF i = 1 THEN CumulativeProfit(rows, 1)
  ELSE Max(CumulativeMax(rows, i - 1), CumulativeProfit(rows, i))

\* The largest drawdown up to row i (i >= 1).
RECURSIVE LargestDrawdown(_, _)
LargestDrawdown(rows, i) ==
  LET here == CumulativeMax(rows, i) - CumulativeProfit(rows, i)
  IN IF i = 1 THEN here ELSE Max(LargestDrawdown(rows, i - 1), here)

\* profit_factor (trade_recorder.py 423-433).
ProfitFactor(selected) ==
  LET winning == SelectSeq(selected, LAMBDA r : r.profit_loss > 0)
      losing == SelectSeq(selected, LAMBDA r : r.profit_loss < 0)
  IN IF Len(losing) > 0 /\ SumProfitLoss(losing) # 0
     THEN Num(Abs(SumProfitLoss(winning)), Abs(SumProfitLoss(losing)))
     ELSE Inf

\* max_drawdown (trade_recorder.py 442-447).
MaxDrawdown(selected) ==
  LET sorted == SortByExitTime(selected)
  IN IF Len(sorted) = 0 THEN NaN ELSE Num(LargestDrawdown(sorted, Len(sorted)), 1)

\* WinRate over the trades won or lost, those closed at no profit left out.
WinRateOfDecided(selected) ==
  LET wins == Len(SelectSeq(selected, LAMBDA r : r.profit_loss > 0))
      losses == Len(SelectSeq(selected, LAMBDA r : r.profit_loss < 0))
  IN IF wins + losses > 0 THEN Rat(wins, wins + losses) ELSE << 0, 1 >>

\* win_rate = wins / total_trades if total_trades > 0 else 0 (425-428).
WinRate(selected) ==
  LET total_trades == Len(selected)
      wins == Len(SelectSeq(selected, LAMBDA r : r.profit_loss > 0))
  IN IF total_trades > 0 THEN Rat(wins, total_trades) ELSE << 0, 1 >>

\* get_performance_metrics (trade_recorder.py 367-468).  period is None (no
\* period, or 'all') or the start of the day, week or month as a time
\* stamp; io = "fail": reading the trade file raised and None is returned.
\* Of the metrics, the averages and sharpe_ratio are left out.
GetPerformanceMetrics(rows, period, io) ==
  IF io = "fail" THEN None
  ELSE
    LET closed_trades == SelectSeq(rows, LAMBDA r : r.status = "CLOSED")
        selected == IF period = None THEN closed_trades
                    ELSE SelectSeq(closed_trades, LAMBDA r : r.exit_time[1] >= period[1])
    IN IF Len(closed_trades) = 0
       THEN Some([total_trades |-> 0, winning_trades |-> 0, losing_trades |-> 0,
                  win_rate |-> << 0, 1 >>, total_profit_loss |-> 0, profit_factor |-> Num(0, 1),
                  max_drawdown |-> Num(0, 1)])
       ELSE Some([total_trades |-> Len(selected),
                  winning_trades |-> Len(SelectSeq(selected, LAMBDA r : r.profit_loss > 0)),
                  losing_trades |-> Len(SelectSeq(selected, LAMBDA r : r.profit_loss < 0)),
                  win_rate |-> WinRate(selected),
                  total_profit_loss |-> SumProfitLoss(selected),
                  profit_factor |-> ProfitFactor(selected),
                  max_drawdown |-> MaxDrawdown(selected)])

\* Rows of the trade file while the metrics are asked for.
MaxMetricTrades == 3

\* Entries of one unit at 100 and exits below, at and above it.
MetricsEntry == LedgerRecordEntryWith(MaxMetricTrades, Symbols, {100}, {QtyScale}, {"ok"})
MetricsExit == LedgerRecordExitWith(OpenIds(trades), LedgerExitPrices, {""}, {"ok"})

\* The report or the command line asks for the metrics (report.py 58,
\* main.py 317).  last.arg: the period asked for.
MetricsQuery ==
  /\ \E period \in Opt(1..Now(trades)), io \in IoResults :
       /\ io = "fail" => period = None
       /\ last' = [LastOp("get_performance_metrics", "returned", None, {}, NoOutcomes, {})
                     EXCEPT !.pos = GetPerformanceMetrics(trades, period, io),
                            !.arg = Some([period |-> period, io |-> io])]
  /\ UNCHANGED << trades, riskStore, active, running, use_dynamic_sl, procs >>

NextMetrics ==
  \/ MetricsEntry
  \/ MetricsExit
  \/ MetricsQuery

SpecMetrics == Init /\ [][NextMetrics]_vars

\* ------------------------------------------------------- get_trade_history
\* sort_values('entry_time', ascending=True): oldest entry first.
RECURSIVE SortByEntryTimeAscending(_)
SortByEntryTimeAscending(rows) ==
  IF rows = << >> THEN << >>
  ELSE LET i == CHOOSE k \in 1..Len(rows) :
                  \A j \in 1..Len(rows) : rows[k].entry_time <= rows[j].entry_time
       IN << rows[i] >>
          \o SortByEntryTimeAscending(SubSeq(rows, 1, i - 1) \o SubSeq(rows, i + 1, Len(rows)))

\* sort_values('entry_time', ascending=False) on rows whose entry times
\* differ (trade_recorder.py 495).
RECURSIVE SortByEntryTime(_)
SortByEntryTime(rows) ==
  IF rows = << >> THEN << >>
  ELSE LET i == CHOOSE k \in 1..Len(rows) :
                  \A j \in 1..Len(rows) : rows[k].entry_time >= rows[j].entry_time
       IN << rows[i] >>
          \o SortByEntryTime(SubSeq(rows, 1, i - 1) \o SubSeq(rows, i + 1, Len(rows)))

\* `if status:` and `if symbol:`: None and the empty string give no filter.
Given(filter) == filter # None /\ filter # Some("")

\* get_trade_history (trade_recorder.py 470-508).  io = "fail": reading the
\* trade file raised and [] is returned.
GetTradeHistory(rows, limit, offset, status, symbol, io) ==
  IF io = "fail" THEN << >>
  ELSE
    LET by_status == IF Given(status)
                     THEN SelectSeq(rows, LAMBDA r : r.status = status[1]) ELSE rows
        by_symbol == IF Given(symbol)
                     THEN SelectSeq(by_status, LAMBDA r : r.symbol = symbol[1])
                     ELSE by_status
        trades_df == SortByEntryTime(by_symbol)
    IN IF offset < Len(trades_df)
       THEN SubSeq(trades_df, offset + 1, Min(offset + limit, Len(trades_df)))
       ELSE << >>

\* Rows of the trade file while the history is asked for, on two symbols.
MaxHistoryTrades == 3
HistorySymbols == {"BTC/USDT", "ETH/USDT"}
HistoryLimits == {0, 1, 2}
HistoryOffsets == {0, 1, 3}
HistoryStatuses == {"CLOSED"}
HistoryFilterSymbols == {"ETH/USDT"}

HistoryEntry ==
  LedgerRecordEntryWith(MaxHistoryTrades, HistorySymbols, {100}, {QtyScale}, {"ok"})
HistoryExit == LedgerRecordExitWith(OpenIds(trades), {103}, {""}, {"ok"})

\* The menu, the command line or the report asks for the history (menu.py
\* 543, main.py 340, report.py 65 and 307).  last.pos: the list returned;
\* last.arg: what was asked for.  When the read fails what was asked for
\* is never looked at, and is fixed.
HistoryQuery ==
  /\ \E limit \in HistoryLimits, offset \in HistoryOffsets,
        status \in Opt(HistoryStatuses), symbol \in Opt(HistoryFilterSymbols),
        io \in IoResults :
       /\ io = "fail" => (limit = 1 /\ offset = 0 /\ status = None /\ symbol = None)
       /\ last' = [LastOp("get_trade_history", "returned", None, {}, NoOutcomes, {})
                    EXCEPT !.pos = GetTradeHistory(trades, limit, offset, status, symbol, io),
                           !.arg = Some([limit |-> limit, offset |-> offset,
                                         status |-> status, symbol |-> symbol, io |-> io])]
  /\ UNCHANGED << trades, riskStore, active, running, use_dynamic_sl, procs >>

NextHistory ==
  \/ HistoryEntry
  \/ HistoryExit
  \/ HistoryQuery

SpecHistory == Init /\ [][NextHistory]_vars

\* ------------------------------------- the trade file while it is rewritten
\* record_trade_exit saves with DataFrame.to_csv(self.trades_file) (175):
\* the file is opened for writing, which empties it, and the rows are
\* written into it one after the other; no temporary file, no rename, no
\* lock.  Another process (the close-all command, the menu) may read the
\* file in between.

\* record_trade_exit up to the opening of the file for writing (131-175):
\* the rows were read, the exit passed its checks and was computed.
ExitOpen ==
  /\ procs.write = None
  /\ \E trade_id \in 1..(MaxTrades + 1), exit_price \in LedgerExitPrices :
       /\ ExitAllowed(trades, trade_id)
       /\ procs' = [procs EXCEPT !.write =
                      Some([old |-> trades,
                            new |-> RecordTradeExit(trades, trade_id, exit_price,
                                                    "manual", "ok").rows])]
       /\ last' = LastOp("to_csv", "", Some(trade_id), {}, NoOutcomes, {})
  /\ trades' = << >>
  /\ UNCHANGED << riskStore, active, running, use_dynamic_sl >>

\* to_csv writes the next row.
ExitWriteRow ==
  /\ procs.write # None /\ Len(trades) < Len(procs.write[1].new)
  /\ trades' = Append(trades, procs.write[1].new[Len(trades) + 1])
  /\ last' = LastOp("to_csv", "", None, {}, NoOutcomes, {})
  /\ UNCHANGED << riskStore, active, running, use_dynamic_sl, procs >>

\* to_csv is done and record_trade_exit returns True (175-182).
ExitDone ==
  /\ procs.write # None /\ Len(trades) = Len(procs.write[1].new)
  /\ procs' = [procs EXCEPT !.write = None]
  /\ last' = LastOp("record_trade_exit", "True", None, {}, NoOutcomes, {})
  /\ UNCHANGED << trades, riskStore, active, running, use_dynamic_sl >>

\* get_open_trades called by another process (297-315); last.ids is the set
\* of trades it returned.
ReadOpenTrades ==
  /\ \E open \in {GetOpenTrades(trades, "ok")} :
       last' = LastOp("get_open_trades", "", None,
                      {open[i].trade_id : i \in 1..Len(open)}, NoOutcomes, {})
  /\ UNCHANGED << trades, riskStore, active, running, use_dynamic_sl, procs >>

\* record_trade_entry, while no exit is being saved.
FileRecordEntry ==
  /\ procs.write = None
  /\ LedgerRecordEntry

NextFile ==
  \/ FileRecordEntry
  \/ ExitOpen
  \/ ExitWriteRow
  \/ ExitDone
  \/ ReadOpenTrades

SpecFile == Init /\ [][NextFile]_vars

\* ------------------------------- Ledger writers of two processes interleaved
\* The scheduling process and the process of the close-all command (or of
\* the menu) each have a TradeRecorder on the same trade file.
\* record_trade_exit reads the whole file (133), changes one row of what it
\* read and writes all of it back (175); record_trade_entry appends one row
\* (103-105).  No lock is taken.  procs.write is the sequence of the calls of
\* record_trade_exit that have read the file and not yet written it, at most
\* one per process; the writing itself is taken as one step here.
MaxWriters == 2

\* An entry is appended, whatever exits are under way.
InterleavedEntry == LedgerRecordEntryWith(MaxTrades, Symbols, {100}, {QtyScale}, {"ok"})

\* record_trade_exit has read the file and computed the exit (131-172), for
\* a trade no other call is closing.
InterleavedExitRead ==
  /\ Len(procs.write) < MaxWriters
  /\ \E trade_id \in TradeIds(trades), exit_price \in LedgerExitPrices :
       /\ ExitAllowed(trades, trade_id)
       /\ \A k \in 1..Len(procs.write) : procs.write[k].trade_id # trade_id
       /\ procs' = [procs EXCEPT !.write =
                      Append(@, [trade_id |-> trade_id, old |-> trades,
                                 new |-> RecordTradeExit(trades, trade_id, exit_price,
                                                         "", "ok").rows])]
       /\ last' = LastOp("read_csv", "", Some(trade_id), {}, NoOutcomes, {})
  /\ UNCHANGED << trades, riskStore, active, running, use_dynamic_sl >>

\* to_csv writes what the call had read, with its one row changed (175),
\* and record_trade_exit returns True.
InterleavedExitSave ==
  /\ \E k \in 1..Len(procs.write) :
       /\ trades' = procs.write[k].new
       /\ procs' = [procs EXCEPT !.write = SubSeq(@, 1, k - 1) \o SubSeq(@, k + 1, Len(@))]
       /\ last' = LastOp("record_trade_exit", "True", Some(procs.write[k].trade_id), {},
                         NoOutcomes, {})
  /\ UNCHANGED << riskStore, active, running, use_dynamic_sl >>

NextInterleaved ==
  \/ InterleavedEntry
  \/ InterleavedExitRead
  \/ InterleavedExitSave

SpecInterleaved == Init /\ [][NextInterleaved]_vars

\* ================================================================= claims
IsTick(l) == l.op = "check_open_positions"
IsExit(l) == l.op = "record_trade_exit"

\* C1: the trade_ids of the active set are exactly the trade_ids whose
\* Ledger status is OPEN, in every state in which the monitor is running.
C1_ActiveEqualsOpen == running => DOMAIN active = OpenIds(trades)

\* C2: rows are never deleted or re-identified, and a CLOSED row never
\* changes again (not reopened, exit_price, exit_time, profit_loss and
\* profit_loss_pct kept) whatever Ledger operation follows.
C2_ClosedIsFinal ==
  [][/\ Len(trades') >= Len(trades)
     /\ \A i \in 1..Len(trades) :
          /\ trades'[i].trade_id = trades[i].trade_id
          /\ trades[i].status = "CLOSED" => trades'[i] = trades[i]]_vars

\* C2 witness: record_trade_exit was called, the file readable, on a trade
\* closed earlier at another price, which kept its exit price.
C2_Witness ==
  /\ IsExit(last) /\ last.arg[1].io = "ok"
  /\ last.tid[1] \in ClosedIds(trades)
  /\ RowById(trades, last.tid[1]).exit_price # Some(last.arg[1].exit_price)

\* C3: record_trade_exit on a trade_id that is unknown or not OPEN returns
\* False and leaves the trade file and the risk files as they were.
C3_FailedExitChangesNothing ==
  [][(IsExit(last') /\ last'.tid[1] \notin OpenIds(trades))
       => (last'.ret = "False" /\ trades' = trades /\ riskStore' = riskStore)]_vars

\* C3 witness: the same exit recorded a second time with the same price: the
\* call returned False and the row holds the first call's result.
C3_Witness ==
  /\ IsExit(last) /\ last.arg[1].io = "ok" /\ last.ret = "False"
  /\ last.tid[1] \in ClosedIds(trades)
  /\ RowById(trades, last.tid[1]).exit_price = Some(last.arg[1].exit_price)

\* C4: a record_trade_exit that returns True leaves the trade CLOSED, with
\* exit_price the price given and profit_loss (exit - entry) * quantity for
\* a buy, (entry - exit) * quantity for a sell.
C4_ProfitLossOnExit ==
  [][(IsExit(last') /\ last'.ret = "True")
       => LET t == last'.tid[1]
              price == last'.arg[1].exit_price
              before == RowById(trades, t)
              after == RowById(trades', t)
          IN /\ before.status = "OPEN"
             /\ after.status = "CLOSED"
             /\ after.exit_price = Some(price)
             /\ after.exit_time # None
             /\ after.profit_loss =
                  IF before.side = "buy"
                  THEN (price - before.entry_price) * before.quantity
                  ELSE (before.entry_price - price) * before.quantity]_vars

\* C4 witness: a buy of one unit at 100 closed at 103 with a profit of 3.
C4_Witness ==
  /\ IsExit(last) /\ last.ret = "True"
  /\ LET r == RowById(trades, last.tid[1])
     IN /\ r.side = "buy" /\ r.quantity = QtyScale /\ r.entry_price = 100
        /\ r.exit_price = Some(103) /\ r.profit_loss = 3 * QtyScale

ClosedRows == {i \in 1..Len(trades) : trades[i].status = "CLOSED"}

\* The price move in the trade's favour, per unit.
Gain(r) ==
  IF r.side = "buy" THEN r.exit_price[1] - r.entry_price
  ELSE r.entry_price - r.exit_price[1]

\* C5 as claimed: profit_loss_pct of a closed trade is the profit_loss formula
\* (the gain times the quantity, in units) divided by entry_price, times 100.
C5_PctOfProfitLoss ==
  \A i \in ClosedRows :
    trades[i].profit_loss_pct =
      Rat(Gain(trades[i]) * trades[i].quantity * 100, trades[i].entry_price * QtyScale)

\* C5 as amended: profit_loss_pct of a closed trade is the gain per unit
\* divided by entry_price, times 100, whatever the quantity.
C5_PctOfPriceMove ==
  \A i \in ClosedRows :
    /\ trades[i].profit_loss_pct[2] > 0
    /\ trades[i].profit_loss_pct[1] * trades[i].entry_price
         = Gain(trades[i]) * 100 * trades[i].profit_loss_pct[2]

\* C5 witness: a sell of two units closed at a gain.
C5_Witness ==
  \E i \in ClosedRows :
    /\ trades[i].side = "sell" /\ trades[i].quantity = 2 * QtyScale
    /\ Gain(trades[i]) > 0 /\ trades[i].profit_loss_pct[1] > 0

\* C6: after a tick, every position whose closing order succeeded is CLOSED
\* in the Ledger at the price seen in the tick, with the reason as notes, and
\* is no longer active.
C6_FilledExitIsRecorded ==
  IsTick(last) =>
    \A t \in DOMAIN last.pos :
      last.pos[t].order = "SUCCESS" =>
        /\ t \in ClosedIds(trades)
        /\ RowById(trades, t).exit_price = last.pos[t].price
        /\ RowById(trades, t).notes = last.pos[t].reason
        /\ t \notin DOMAIN active

\* A position seen at price p breaches a fixed threshold or, the extrema
\* brought up to date with p, the trailing stop.
Breached(pos, p) ==
  /\ pos.stop_loss # None /\ pos.take_profit # None
  /\ IF pos.side = "buy"
     THEN \/ p * PriceScale <= pos.stop_loss[1]
          \/ p * PriceScale >= pos.take_profit[1]
          \/ (use_dynamic_sl
              /\ 200 * p < Max(pos.highest_price, p) * (200 - STOP_LOSS))
     ELSE \/ p * PriceScale >= pos.stop_loss[1]
          \/ p * PriceScale <= pos.take_profit[1]
          \/ (use_dynamic_sl
              /\ 200 * p > Min(pos.lowest_price, p) * (200 + STOP_LOSS))

\* C7: a position whose closing order failed in a tick is still active with
\* the thresholds it had, its Ledger row is OPEN as it was, and in every tick a
\* position seen at a breaching price has a closing order submitted, also
\* when the previous tick's order for it failed.
C7_RejectedExitIsRetried ==
  [][IsTick(last') =>
       \A t \in DOMAIN last'.pos :
         /\ last'.pos[t].order = "ERROR" =>
              /\ t \in DOMAIN active /\ t \in DOMAIN active'
              /\ active'[t].stop_loss = active[t].stop_loss
              /\ active'[t].take_profit = active[t].take_profit
              /\ active'[t].quantity = active[t].quantity
              /\ RowById(trades', t) = RowById(trades, t)
              /\ RowById(trades', t).status = "OPEN"
         /\ (last'.pos[t].seen /\ Breached(active[t], last'.pos[t].price[1]))
              => last'.pos[t].order \in OrderStatuses]_vars

\* C7 witness: a closing order failed in one tick and the next tick closed
\* the trade.
C7_Witness ==
  /\ IsTick(last)
  /\ \E t \in DOMAIN last.pos :
       /\ last.pos[t].retry /\ last.pos[t].order = "SUCCESS" /\ last.pos[t].recorded
       /\ t \in ClosedIds(trades)

\* C8: a tick handles (sees the price of, or skips for want of a price)
\* every position that was active when it began, whatever happened to the
\* positions before it.
C8_EveryPositionIsHandled ==
  IsTick(last) => last.ids \subseteq DOMAIN last.pos

\* C9: no tick ends the scheduling loop.
C9_LoopKeepsRunning == IsTick(last) => running

\* C10: a position whose closing order succeeded while record_trade_exit
\* returned False is still active after the tick.
C10_UnrecordedExitStaysActive ==
  IsTick(last) =>
    \A t \in DOMAIN last.pos :
      (last.pos[t].order = "SUCCESS" /\ ~last.pos[t].recorded) => t \in DOMAIN active

IsEntry(l) == l.op = "execute_trade"

\* C11: an entry request whose order the gateway refused returns a failure,
\* and writes no trade row, no risk file and no active position.
C11_RefusedEntryWritesNothing ==
  [][(IsEntry(last') /\ last'.arg[1].order \notin {"none", "SUCCESS", "TEST_SUCCESS"})
       => /\ last'.ret = "failed" /\ last'.tid = None
          /\ trades' = trades /\ riskStore' = riskStore /\ active' = active]_vars

\* C11 witness: an entry request was refused by the gateway while a trade
\* recorded earlier is open and active.
C11_Witness ==
  /\ IsEntry(last) /\ last.arg[1].order = "ERROR" /\ last.ret = "failed"
  /\ Len(trades) = 1 /\ DOMAIN active = {1} /\ DOMAIN riskStore = {1}

\* C12: once the process is started again after being killed between the
\* fill of a closing order and its recording, the trade is CLOSED in the
\* Ledger (its exit recorded once) and is not monitored any more.
C12_RestartRecordsFilledExit ==
  last.op = "restart" =>
    \A t \in last.ids : t \in ClosedIds(trades) /\ t \notin DOMAIN active

\* The ids a loop in flight has still to go through.
Todo(proc) == IF proc = None THEN {} ELSE {proc[1].todo[i] : i \in 1..Len(proc[1].todo)}

\* C13: a tick and a close-all are never both inside their loops with a
\* position of the same open trade still to handle.
C13_LoopsNeverOverlap == Todo(procs.tick) \cap Todo(procs.close) = {}

\* C14: what a reader of the trade file gets while an exit is being
\* recorded: every row it can see is CLOSED exactly when its exit_price and
\* exit_time are present, and the OPEN trades it is given are those of the
\* file before the exit or those of the file after it.
C14_ReaderSeesWholeFile ==
  last.op = "get_open_trades" =>
    /\ \A i \in 1..Len(trades) :
         (trades[i].status = "CLOSED")
           <=> (trades[i].exit_price # None /\ trades[i].exit_time # None)
    /\ last.ids \in (IF procs.write = None THEN {OpenIds(trades)}
                     ELSE {OpenIds(procs.write[1].old), OpenIds(procs.write[1].new)})

IsCloseAll(l) == l.op = "close_all_positions" /\ l.arg # None

\* C15: close_all_positions returns exactly the positions whose closing
\* order succeeded; each of them is CLOSED in the Ledger and no longer
\* active, and every other position is still active with its trade OPEN.
C15_CloseAllReportsWhatIsClosed ==
  IsCloseAll(last) =>
    /\ last.closed = {t \in last.ids : t \in DOMAIN last.pos /\ last.pos[t].order = "SUCCESS"}
    /\ \A t \in last.closed :
         t \in ClosedIds(trades) /\ t \notin last.arg[1].left
    /\ \A t \in last.ids \ last.closed :
         t \in OpenIds(trades) /\ t \in last.arg[1].left

IsUpdate(l) == l.op = "update_stop_loss"

\* C16: update_stop_loss on an active trade leaves the stop price in memory
\* and the stop price in the risk file both equal to the new one; on a trade
\* that is not active it returns False and changes neither the active
\* positions nor the risk files.
C16_UpdateReachesMemoryAndFile ==
  [][IsUpdate(last') =>
       LET t == last'.tid[1]
           new == Some(last'.arg[1].new_stop_loss)
       IN IF t \in DOMAIN active
          THEN /\ active'[t].stop_loss = new
               /\ t \in DOMAIN riskStore' /\ riskStore'[t].stop_loss = new
          ELSE /\ last'.ret = "False"
               /\ active' = active /\ riskStore' = riskStore]_vars

IsRestart(l) == l.op = "restart"

\* C17: once the AutoTrader is constructed, the active positions are those
\* of the OPEN trades and of no other, each with the thresholds its risk
\* file holds and with highest_price = lowest_price = entry_price.
C17_StartLoadsOpenTrades ==
  IsRestart(last) =>
    /\ DOMAIN active = OpenIds(trades)
    /\ \A t \in DOMAIN active :
         /\ active[t].highest_price = RowById(trades, t).entry_price
         /\ active[t].lowest_price = RowById(trades, t).entry_price
         /\ t \in DOMAIN riskStore =>
              /\ active[t].stop_loss = riskStore[t].stop_loss
              /\ active[t].take_profit = riskStore[t].take_profit

\* From one state to the next, for every position active in both:
\* highest_price does not decrease, lowest_price does not increase, the
\* entry price lies between them, and a tick that got no price for the
\* position leaves it as it was.
ExtremaWiden ==
  \A t \in DOMAIN active \cap DOMAIN active' :
    /\ active'[t].highest_price >= active[t].highest_price
    /\ active'[t].lowest_price <= active[t].lowest_price
    /\ active'[t].lowest_price <= active'[t].entry_price
    /\ active'[t].entry_price <= active'[t].highest_price
    /\ (IsTick(last') /\ t \in DOMAIN last'.pos /\ ~last'.pos[t].seen)
         => active'[t] = active[t]

\* C18 as claimed: the extrema of a position only widen over its whole
\* lifetime since entry, restarts included.
C18_ExtremaWidenSinceEntry == [][ExtremaWiden]_vars

\* C18 as amended: the extrema of a position only widen as long as the
\* process that holds it runs; a start seeds them anew with the entry price.
C18_ExtremaWidenWithinRun == [][~IsRestart(last') => ExtremaWiden]_vars

\* C18 witness: a tick got no price for a position whose highest price had
\* risen above the entry price before, and the position kept it.
C18_Witness ==
  /\ IsTick(last)
  /\ \E t \in DOMAIN active \cap DOMAIN last.pos :
       /\ ~last.pos[t].seen
       /\ active[t].highest_price > active[t].entry_price

\* The exit the precedence rule gives for a position with thresholds sl and
\* tp (1/100 price units) and extrema hi and lo, at price p.
FirstMatch(side, sl, tp, hi, lo, p, dynamic) ==
  IF side = "buy"
  THEN CASE p * PriceScale <= sl -> "stop_loss"
         [] p * PriceScale > sl /\ p * PriceScale >= tp -> "take_profit"
         [] p * PriceScale > sl /\ p * PriceScale < tp /\ dynamic
              /\ 200 * p < hi * (200 - STOP_LOSS) -> "dynamic_stop_loss"
         [] OTHER -> ""
  ELSE CASE p * PriceScale >= sl -> "stop_loss"
         [] p * PriceScale < sl /\ p * PriceScale <= tp -> "take_profit"
         [] p * PriceScale < sl /\ p * PriceScale > tp /\ dynamic
              /\ 200 * p > lo * (200 + STOP_LOSS) -> "dynamic_stop_loss"
         [] OTHER -> ""

IsSize == last.op = "_calculate_trade_size" /\ last.ret = "returned"

\* The float a decimal literal of the specification denotes.
SizeOf(num, den) == FRatio(Digits(num), Digits(den), 0)

\* C20: the quantity _calculate_trade_size returns never exceeds
\* min(max_trade_size, affordable), affordable being balance / price for a
\* buy and the balance for a sell; buy at 50000 with a balance of 5 gives
\* 0.0001.
C20_SizeNeverExceedsAffordable ==
  IsSize =>
    /\ FCmp(last.pos[1].quantity, last.pos[1].max) <= 0
    /\ (last.arg[1] = [side |-> "buy", price |-> << 50000, 1 >>, free |-> << 5, 1 >>]
          => FCmp(last.pos[1].quantity, SizeOf(1, 10000)) = 0)

\* An entry request whose balance is missing or not positive, or whose
\* affordable quantity is below one step of the precision.
Unfunded(a) ==
  \/ a.free = None
  \/ a.free[1] <= 0
  \/ /\ a.signal = "buy" /\ a.free[1] < MAX_TRADE_SIZE * a.price
     /\ a.free[1] * Pow10(IF a.price < 100 THEN 6 ELSE 4) < a.price

\* C21: an entry request whose floored quantity is <= 0, or whose free
\* balance is missing or <= 0, returns a failure, submits no order, writes
\* nothing to the Ledger and leaves the active set as it was.
C21_UnfundedEntryDoesNothing ==
  [][IsEntry(last') /\ last'.arg[1].signal \in Sides /\ Unfunded(last'.arg[1])
       /\ last'.ret # "ignored"
     => /\ last'.ret = "failed"
        /\ last'.arg[1].order = "none"
        /\ trades' = trades /\ riskStore' = riskStore /\ active' = active]_vars

\* A buy at 50000 with a balance of 2 came to a quantity of zero.
C21_Witness ==
  /\ IsEntry(last) /\ last.ret = "failed"
  /\ last.arg[1].signal = "buy" /\ last.arg[1].price = 50000 /\ last.arg[1].free = Some(2)

IsThresholds == last.op = "_calculate_stop_loss_take_profit" /\ last.ret = "returned"

\* C22: the thresholds are price * (1 -+ stop_loss_pct/100) and
\* price * (1 +- take_profit_pct/100), mirrored for a sell; so for positive
\* percentages stop_loss < entry_price < take_profit for a buy,
\* take_profit < entry_price < stop_loss for a sell, and the position is
\* not beyond a fixed threshold at its own entry price.
C22_ThresholdsAroundEntry ==
  IsThresholds =>
    LET a == last.arg[1]
        pos == last.pos[1]
        sl == pos.stop_loss[1]
        tp == pos.take_profit[1]
        entry == pos.entry_price * PriceScale
    IN /\ pos.entry_price = a.price
       /\ a.side = "buy" =>
            /\ sl * 100 = a.price * (100 - a.stop_loss_pct) * PriceScale
            /\ tp * 100 = a.price * (100 + a.take_profit_pct) * PriceScale
            /\ sl < entry /\ entry < tp
       /\ a.side = "sell" =>
            /\ sl * 100 = a.price * (100 + a.stop_loss_pct) * PriceScale
            /\ tp * 100 = a.price * (100 - a.take_profit_pct) * PriceScale
            /\ tp < entry /\ entry < sl
       /\ ExitReason(pos, pos.entry_price) \notin {"stop_loss", "take_profit", "raise"}

\* The thresholds of a sell at 50000 with 3 % and 2 % were calculated.
C22_Witness ==
  /\ IsThresholds
  /\ last.arg[1] = [side |-> "sell", price |-> 50000, stop_loss_pct |-> 3, take_profit_pct |-> 2]
  /\ last.pos[1].stop_loss = Some(5150000) /\ last.pos[1].take_profit = Some(4900000)

Sign(x) == IF x > 0 THEN 1 ELSE IF x < 0 THEN -1 ELSE 0

\* C23: for every CLOSED trade the sign of profit_loss is the sign of
\* exit_price - entry_price for a buy and of entry_price - exit_price for a
\* sell.
C23_ProfitSignFollowsPriceMove ==
  \A i \in ClosedRows :
    /\ trades[i].side = "buy" =>
         Sign(trades[i].profit_loss) = Sign(trades[i].exit_price[1] - trades[i].entry_price)
    /\ trades[i].side = "sell" =>
         Sign(trades[i].profit_loss) = Sign(trades[i].entry_price - trades[i].exit_price[1])

\* A sell closed at a loss next to a buy closed at its entry price.
C23_Witness ==
  /\ Len(trades) = 2
  /\ \E i, j \in ClosedRows :
       /\ trades[i].side = "sell" /\ trades[i].exit_price[1] > trades[i].entry_price
       /\ trades[i].profit_loss < 0
       /\ trades[j].side = "buy" /\ trades[j].exit_price[1] = trades[j].entry_price
       /\ trades[j].profit_loss = 0

\* From one state to the next, with trailing enabled, the trailing-stop
\* trigger of every buy position active in both does not move down.
TriggerHolds ==
  \A t \in DOMAIN active \cap DOMAIN active' :
    (use_dynamic_sl /\ active[t].side = "buy")
      => TrailingTrigger("buy", active'[t].highest_price)
           >= TrailingTrigger("buy", active[t].highest_price)

\* C24 as claimed: with trailing enabled, the trailing-stop trigger of a buy
\* position, highest_price * (1 - stop_loss_pct / 200), never moves down
\* while the position is active.
C24_TriggerNeverFalls == [][TriggerHolds]_vars

\* C24 as amended: the trigger never moves down along the ticks of one run
\* of the scheduling process; a start puts it back to that of the entry
\* price.
C24_TriggerNeverFallsWithinRun == [][~IsRestart(last') => TriggerHolds]_vars

\* C24 witness: a tick saw a price below the highest price of a buy
\* position, which stays active with its trigger above that of the entry
\* price.
C24_Witness ==
  /\ IsTick(last) /\ use_dynamic_sl
  /\ \E t \in DOMAIN active \cap DOMAIN last.pos :
       /\ active[t].side = "buy"
       /\ last.pos[t].seen /\ last.pos[t].price[1] < active[t].highest_price
       /\ TrailingTrigger("buy", active[t].highest_price)
            > TrailingTrigger("buy", active[t].entry_price)

IsMetrics == last.op = "get_performance_metrics" /\ last.pos # None

\* The CLOSED rows the period asked for selects.
SelectedRows ==
  {i \in ClosedRows : last.arg[1].period = None
                        \/ trades[i].exit_time[1] >= last.arg[1].period[1]}

RECURSIVE SumOver(_)
SumOver(S) ==
  IF S = {} THEN 0
  ELSE LET i == CHOOSE k \in S : TRUE IN trades[i].profit_loss + SumOver(S \ {i})

Winners == {i \in SelectedRows : trades[i].profit_loss > 0}
Losers == {i \in SelectedRows : trades[i].profit_loss < 0}

\* C25: profit_factor over the selected closed trades is
\* |sum of winning P/L| / |sum of losing P/L|, +infinity when there are
\* winning and no losing trades, and 0 when no closed trade is selected,
\* whether there is none at all or the period selects none.
C25_ProfitFactor ==
  IsMetrics =>
    /\ Losers # {} =>
         last.pos[1].profit_factor = Num(Abs(SumOver(Winners)), Abs(SumOver(Losers)))
    /\ (Winners # {} /\ Losers = {}) => last.pos[1].profit_factor = Inf
    /\ SelectedRows = {} => last.pos[1].profit_factor = Num(0, 1)

\* Cumulative P/L up to and including row i, in the order of exit_time.
CumAt(i) == SumOver({j \in SelectedRows : trades[j].exit_time[1] <= trades[i].exit_time[1]})

\* The declines of cumulative P/L from an earlier (or the same) row to a
\* later one.
Declines ==
  {CumAt(j) - CumAt(i) : << j, i >> \in
     {p \in SelectedRows \X SelectedRows :
        trades[p[1]].exit_time[1] <= trades[p[2]].exit_time[1]}}

\* C26: max_drawdown is the largest decline of cumulative P/L below its
\* running maximum over the closed trades in the order of exit_time; it is
\* never negative, and 0 when cumulative P/L never declines.
C26_MaxDrawdown ==
  IsMetrics =>
    /\ last.pos[1].max_drawdown.kind = "num"
    /\ last.pos[1].max_drawdown.val[1] >= 0
    /\ SelectedRows # {} =>
         \E d \in Declines :
           /\ \A e \in Declines : e <= d
           /\ last.pos[1].max_drawdown = Num(d, 1)
    /\ (\A d \in Declines : d <= 0) => last.pos[1].max_drawdown = Num(0, 1)

\* The step is an iteration of the tick or of close-all in which the gateway
\* filled a closing order for trade t: the tick marks t for removal, the
\* close-all puts t into the list it returns.
FilledInStep(t) ==
  \/ /\ procs.tick # None /\ procs'.tick # None
     /\ t \in procs'.tick[1].remove \ procs.tick[1].remove
  \/ /\ procs.close # None /\ procs'.close # None
     /\ t \in procs'.close[1].closed \ procs.close[1].closed

\* C27: no trade gets a second filled closing order.  A trade is CLOSED in
\* the Ledger only after a closing order for it was filled, so no closing
\* order is filled for a trade the Ledger shows CLOSED.
C27_OneClosingOrderPerTrade ==
  [][\A t \in TradeIds(trades) :
       FilledInStep(t) => RowById(trades, t).status = "OPEN"]_vars

\* C28: execute_trade answers "success", or its entry order was filled,
\* only if the Ledger then holds a new OPEN trade under the trade_id
\* returned, which is not None, and the active set holds that trade_id.
C28_SuccessMeansRecordedAndMonitored ==
  [][(IsEntry(last') /\ (last'.ret = "success" \/ OrderSucceeded(last'.arg[1].order)))
       => /\ last'.tid # None
          /\ last'.tid[1] \notin TradeIds(trades)
          /\ last'.tid[1] \in OpenIds(trades')
          /\ last'.tid[1] \in DOMAIN active']_vars

\* C29: no Ledger update is lost when an exit is recorded while another
\* process appends an entry or records the exit of another trade: from one
\* state of the trade file to the next every trade stays in the file and a
\* CLOSED trade stays CLOSED.
C29_NoLedgerUpdateLost ==
  [][/\ TradeIds(trades) \subseteq TradeIds(trades')
     /\ ClosedIds(trades) \subseteq ClosedIds(trades')]_vars

\* The last tick handled position t, got a price and found an exit reason.
BreachSeen(t) ==
  /\ IsTick(last) /\ t \in DOMAIN last.pos
  /\ last.pos[t].seen /\ last.pos[t].reason \notin {"", "raise"}

\* ... and the gateway accepted the closing order.
Accepted(t) == BreachSeen(t) /\ OrderSucceeded(last.pos[t].order)

\* Trade t is CLOSED in the Ledger and no longer in the active set.
Done(t) == t \in ClosedIds(trades) /\ t \notin DOMAIN active

\* C30: with ticks scheduled fairly, if from some point on every tick that
\* handles position t gets a price and finds its exit condition to hold, and
\* the gateway at some time accepts the closing order, then trade t is
\* CLOSED in the Ledger and out of the active set in the end.
C30_BreachedPositionIsClosed ==
  \A t \in 1..MaxLiveTrades :
    (/\ <>[][(IsTick(last') /\ t \in DOMAIN last'.pos) => BreachSeen(t)']_vars
     /\ <>Accepted(t))
      => <>Done(t)

\* C31: in every state, each active position has in memory the stop_loss and
\* the take_profit that the risk file of its trade holds (after an entry,
\* after update_stop_loss whatever it returns, after a start of the process).
C31_ThresholdsMatchStore ==
  \A t \in DOMAIN active :
    /\ t \in DOMAIN riskStore
    /\ active[t].stop_loss = riskStore[t].stop_loss
    /\ active[t].take_profit = riskStore[t].take_profit

\* The fields of a trade row that say which trade it is.
Identity(row) == << row.trade_id, row.symbol, row.side, row.quantity, row.entry_price >>

\* C32: a record_trade_entry that returns a trade_id has appended exactly one
\* row, OPEN, without exit_time and exit_price, with a trade_id no row had
\* before, has written the thresholds given to the risk file of the trade
\* and has left every row before as it was; and no step ever changes
\* trade_id, symbol, side, quantity or entry_price of a row.
C32_EntryAddsOneOpenRow ==
  [][/\ (last'.op = "execute_trade" /\ last'.tid # None) =>
          LET id == last'.tid[1]
              new == trades'[Len(trades')]
          IN /\ Len(trades') = Len(trades) + 1
             /\ SubSeq(trades', 1, Len(trades)) = trades
             /\ new.trade_id = id /\ id \notin TradeIds(trades)
             /\ new.status = "OPEN"
             /\ new.exit_time = None /\ new.exit_price = None
             /\ id \in DOMAIN riskStore'
             /\ riskStore'[id].stop_loss = active'[id].stop_loss
             /\ riskStore'[id].take_profit = active'[id].take_profit
     /\ Len(trades') >= Len(trades)
     /\ \A i \in 1..Len(trades) : Identity(trades'[i]) = Identity(trades[i])]_vars

\* The operation was a tick or the close-all command, as a whole.
IsClosing(l) == l.op = "check_open_positions" \/ l.op = "close_all_positions"

\* C33: every closing order handed to the gateway by a tick or by the
\* close-all command is a market order on the symbol of the trade, on the
\* side opposite to the side of the trade, for the whole quantity written to
\* the Ledger at entry.
C33_ClosingOrderIsOppositeAndWhole ==
  IsClosing(last) =>
    \A t \in DOMAIN last.pos :
      last.pos[t].order # "none" =>
        LET row == RowById(trades, t)
        IN last.pos[t].request =
             Some([symbol |-> row.symbol, order_type |-> "market",
                   side |-> IF row.side = "buy" THEN "sell" ELSE "buy",
                   amount |-> row.quantity])

\* A tick has placed the closing order of a buy, the close-all command that
\* of a sell.
C33_Witness ==
  /\ IsClosing(last)
  /\ \E t \in DOMAIN last.pos :
       /\ last.pos[t].order = "SUCCESS"
       /\ last.pos[t].request # None
       /\ \/ IsTick(last) /\ last.pos[t].request[1].side = "sell"
          \/ ~IsTick(last) /\ last.pos[t].request[1].side = "buy"

\* C34: an entry request whose signal is neither buy nor sell, or whose
\* confidence is given and below 70, returns "ignored" without asking for
\* the balance, without submitting an order, without writing to the Ledger
\* or the risk files and without changing the active set.
C34_IgnoredRequestDoesNothing ==
  [][(/\ IsEntry(last')
      /\ \/ last'.arg[1].signal \notin {"buy", "sell", "BUY", "SELL"}
         \/ /\ last'.arg[1].confidence # None
            /\ last'.arg[1].confidence[1] < 70)
     => /\ last'.ret = "ignored"
        /\ ~last'.arg[1].asked
        /\ last'.arg[1].order = "none"
        /\ trades' = trades /\ riskStore' = riskStore /\ active' = active]_vars

\* A buy with a confidence of 69 was ignored while a trade was active.
C34_Witness ==
  /\ IsEntry(last) /\ last.ret = "ignored"
  /\ last.arg[1].signal = "buy" /\ last.arg[1].confidence = Some(69)
  /\ active # EmptyMap

IsHistory == last.op = "get_trade_history"

\* The rows of the Ledger that pass the filters last asked for.
Matches ==
  LET a == last.arg[1]
  IN {i \in 1..Len(trades) :
        /\ (a.status \in {None, Some("")} \/ trades[i].status = a.status[1])
        /\ (a.symbol = None \/ trades[i].symbol = a.symbol[1])}

\* The matching rows entered later than row i.
Newer(i) == {j \in Matches : trades[j].entry_time > trades[i].entry_time}

\* C35: get_trade_history returns rows of the Ledger that pass the filters
\* given, newest entry_time first, no more than limit of them, and none when
\* offset is at or beyond the number of matches; when the trade file was
\* read it returns exactly the matches that come after the first offset
\* ones, up to limit of them; and it leaves the Ledger as it was.
C35_HistoryPage ==
  [][(last'.op = "get_trade_history") =>
       LET a == last'.arg[1]
           page == last'.pos
           n == Cardinality(Matches')
       IN /\ trades' = trades /\ riskStore' = riskStore
          /\ \A k \in 1..Len(page) : \E i \in Matches' : page[k] = trades'[i]
          /\ \A k \in 1..(Len(page) - 1) : page[k].entry_time >= page[k + 1].entry_time
          /\ Len(page) <= a.limit
          /\ a.offset >= n => page = << >>
          /\ a.io = "ok" =>
               /\ Len(page) = Max(0, Min(a.limit, n - a.offset))
               /\ \A k \in 1..Len(page) :
                    \E i \in Matches' :
                      /\ page[k] = trades'[i]
                      /\ Cardinality(Newer(i)') = a.offset + k - 1]_vars

\* The second page of one row, of three rows of which two are CLOSED and
\* pass the filter.
C35_Witness ==
  /\ IsHistory /\ Len(trades) = 3
  /\ last.arg[1].status = Some("CLOSED") /\ last.arg[1].symbol = None
  /\ last.arg[1].limit = 1 /\ last.arg[1].offset = 1
  /\ Cardinality(Matches) = 2 /\ Len(last.pos) = 1

\* C36: the metrics count CLOSED trades only: total_trades is the number of
\* closed trades the period selects, winning_trades and losing_trades those
\* of them with a profit and with a loss, together no more than
\* total_trades, win_rate is winning_trades / total_trades, and 0 when no
\* closed trade is selected.
C36_WinRateOverClosedTrades ==
  IsMetrics =>
    LET m == last.pos[1]
    IN /\ m.total_trades = Cardinality(SelectedRows)
       /\ m.winning_trades = Cardinality(Winners)
       /\ m.losing_trades = Cardinality(Losers)
       /\ m.winning_trades + m.losing_trades <= m.total_trades
       /\ SelectedRows # {} =>
            m.win_rate[1] * m.total_trades = m.winning_trades * m.win_rate[2]
       /\ SelectedRows = {} => m.win_rate = << 0, 1 >>

\* Of three trades one is OPEN, one was closed with a profit and one at the
\* entry price: a win_rate of 1/2.
C36_Witness ==
  /\ IsMetrics /\ Len(trades) = 3
  /\ OpenIds(trades) # {}
  /\ Cardinality(SelectedRows) = 2 /\ Cardinality(Winners) = 1 /\ Losers = {}
  /\ last.pos[1].win_rate = << 1, 2 >>

====
